---- MODULE Spec2Model ----
(***************************************************************************)
(* Envelope codec and typed-message dispatch of the edge communication     *)
(* protocol: the schema directory (src/avro.rs), the two-field envelope,   *)
(* the per-type load/save mappings (src/objects, src/protocol/objects)     *)
(* and the fixed-width identity primitives (src/primitives.rs,             *)
(* src/utils.rs).                                                          *)
(*                                                                         *)
(* Conventions.  Option<T> is a sequence: None is << >>, Some(x) is <<x>>. *)
(* A Vec<u8> is a sequence of numbers 0..255.  A generic avro value is a   *)
(* record [k |-> kind, v |-> content]; a HashMap is the set of its         *)
(* <<key, value>> pairs, and every iteration over it picks an order.       *)
(***************************************************************************)
EXTENDS Integers, Sequences, FiniteSets, TLC

VARIABLES
    directory,  \* BuilderImpl.directory: schema name -> schema
    pc,         \* "running", or "aborted" once a call has panicked
    obj,        \* Option<T>: the typed message the caller holds
    pmsg,       \* Option<ProtocolMessage>: the generic message the caller holds
    buf,        \* Option<Vec<u8>>: the serialized envelope the caller holds
    res,        \* the last call: its name, argument and outcome
    first,      \* Option<Vec<u8>>: the first envelope packed for origin
    origin,     \* Option<T>: the message the caller constructed
    packs,      \* envelopes packed since the caller constructed origin
    calls       \* of each concurrent caller of the shared Builder: the call
                \* it is in, the lookups that call has made, its outcome

vars == <<directory, pc, obj, pmsg, buf, res, first, origin, packs, calls>>

----------------------------------------------------------------------------
(* Bounds of the model. *)

\* longest identity byte string handed to fill_byte_array / pack_track_name
MaxNameLen == 17
\* envelopes packed in one chain construct -> save -> pack -> load -> save -> pack
MaxPacks == 2
\* threads that call into one shared Builder
NumCallers == 2

----------------------------------------------------------------------------
(* Option and small helpers. *)

None == << >>
Some(x) == <<x>>
IsSome(o) == Len(o) = 1
Unwrap(o) == o[1]

Min(a, b) == IF a < b THEN a ELSE b

RECURSIVE Concat(_)
Concat(ss) == IF ss = << >> THEN << >> ELSE Head(ss) \o Concat(Tail(ss))

\* every ordering of a finite set, as sequences: the orders an iteration over
\* a HashMap can take
RECURSIVE Orders(_)
Orders(S) ==
    IF S = {} THEN { << >> }
    ELSE UNION { { <<x>> \o o : o \in Orders(S \ {x}) } : x \in S }

----------------------------------------------------------------------------
(* Program constants. *)

TRACK_NAME_MAX_LENGTH == 16
STREAM_NAME_MAX_LENGTH == 16

STORAGE_SCHEMAS == "storage"
TRACK_TYPE_SCHEMA == "insight.storage.TrackType.avsc"
TRACK_INFO_SCHEMA == "insight.storage.TrackInfo.avsc"
UNIT_SCHEMA == "insight.storage.Unit.avsc"
UNIT_ELEMENT_MESSAGE_SCHEMA == "insight.storage.UnitElementMessage.avsc"
UNIT_ELEMENT_VALUE_SCHEMA == "insight.storage.UnitElementValue.avsc"

TRANSPORT_SCHEMAS == "transport"
NOTIFY_MESSAGE_SCHEMA == "insight.transport.NotifyMessage.avsc"
STREAM_TRACKS_REQUEST_SCHEMA == "insight.transport.StreamTracksRequest.avsc"
STREAM_TRACKS_RESPONSE_SCHEMA == "insight.transport.StreamTracksResponse.avsc"
STREAM_TRACK_UNIT_ELEMENTS_REQUEST_SCHEMA ==
    "insight.transport.StreamTrackUnitElementsRequest.avsc"
STREAM_TRACK_UNIT_ELEMENTS_RESPONSE_SCHEMA ==
    "insight.transport.StreamTrackUnitElementsResponse.avsc"
STREAM_TRACK_UNITS_REQUEST_SCHEMA ==
    "insight.transport.StreamTrackUnitsRequest.avsc"
STREAM_TRACK_UNITS_RESPONSE_SCHEMA ==
    "insight.transport.StreamTrackUnitsResponse.avsc"
MESSAGE_ENVELOPE_SCHEMA == "insight.transport.MessageEnvelope.avsc"
PING_REQUEST_RESPONSE_SCHEMA == "insight.transport.PingRequestResponse.avsc"
KEEPALIVE_MESSAGE_SCHEMA == "insight.transport.KeepAliveMessage.avsc"

SERVICE_FFPROBE_SCHEMAS == "services/ffprobe"
SERVICES_FFPROBE_REQUEST_SCHEMA == "insight.ffprobe.Request.avsc"
SERVICES_FFPROBE_RESPONSE_SCHEMA == "insight.ffprobe.Response.avsc"

\* a well-formed schema name that no manifest file declares
UNKNOWN_SCHEMA == "insight.transport.Unknown.avsc"

----------------------------------------------------------------------------
(* Text and its UTF-8 bytes.  The strings of the model and the bytes        *)
(* String::as_bytes / Into<Vec<u8>> gives for each.                         *)

StringTable ==
    <<
       <<"insight.storage.TrackType.avsc",
         <<105, 110, 115, 105, 103, 104, 116, 46, 115, 116, 111, 114, 97, 103, 101, 46, 84, 114, 97, 99, 107, 84, 121, 112, 101, 46, 97, 118, 115, 99>>>>,
       <<"insight.storage.TrackInfo.avsc",
         <<105, 110, 115, 105, 103, 104, 116, 46, 115, 116, 111, 114, 97, 103, 101, 46, 84, 114, 97, 99, 107, 73, 110, 102, 111, 46, 97, 118, 115, 99>>>>,
       <<"insight.storage.Unit.avsc",
         <<105, 110, 115, 105, 103, 104, 116, 46, 115, 116, 111, 114, 97, 103, 101, 46, 85, 110, 105, 116, 46, 97, 118, 115, 99>>>>,
       <<"insight.storage.UnitElementMessage.avsc",
         <<105, 110, 115, 105, 103, 104, 116, 46, 115, 116, 111, 114, 97, 103, 101, 46, 85, 110, 105, 116, 69, 108, 101, 109, 101, 110, 116, 77, 101, 115, 115, 97, 103, 101, 46, 97, 118, 115, 99>>>>,
       <<"insight.storage.UnitElementValue.avsc",
         <<105, 110, 115, 105, 103, 104, 116, 46, 115, 116, 111, 114, 97, 103, 101, 46, 85, 110, 105, 116, 69, 108, 101, 109, 101, 110, 116, 86, 97, 108, 117, 101, 46, 97, 118, 115, 99>>>>,
       <<"insight.transport.NotifyMessage.avsc",
         <<105, 110, 115, 105, 103, 104, 116, 46, 116, 114, 97, 110, 115, 112, 111, 114, 116, 46, 78, 111, 116, 105, 102, 121, 77, 101, 115, 115, 97, 103, 101, 46, 97, 118, 115, 99>>>>,
       <<"insight.transport.StreamTracksRequest.avsc",
         <<105, 110, 115, 105, 103, 104, 116, 46, 116, 114, 97, 110, 115, 112, 111, 114, 116, 46, 83, 116, 114, 101, 97, 109, 84, 114, 97, 99, 107, 115, 82, 101, 113, 117, 101, 115, 116, 46, 97, 118, 115, 99>>>>,
       <<"insight.transport.StreamTracksResponse.avsc",
         <<105, 110, 115, 105, 103, 104, 116, 46, 116, 114, 97, 110, 115, 112, 111, 114, 116, 46, 83, 116, 114, 101, 97, 109, 84, 114, 97, 99, 107, 115, 82, 101, 115, 112, 111, 110, 115, 101, 46, 97, 118, 115, 99>>>>,
       <<"insight.transport.StreamTrackUnitElementsRequest.avsc",
         <<105, 110, 115, 105, 103, 104, 116, 46, 116, 114, 97, 110, 115, 112, 111, 114, 116, 46, 83, 116, 114, 101, 97, 109, 84, 114, 97, 99, 107, 85, 110, 105, 116, 69, 108, 101, 109, 101, 110, 116, 115, 82, 101, 113, 117, 101, 115, 116, 46, 97, 118, 115, 99>>>>,
       <<"insight.transport.StreamTrackUnitElementsResponse.avsc",
         <<105, 110, 115, 105, 103, 104, 116, 46, 116, 114, 97, 110, 115, 112, 111, 114, 116, 46, 83, 116, 114, 101, 97, 109, 84, 114, 97, 99, 107, 85, 110, 105, 116, 69, 108, 101, 109, 101, 110, 116, 115, 82, 101, 115, 112, 111, 110, 115, 101, 46, 97, 118, 115, 99>>>>,
       <<"insight.transport.StreamTrackUnitsRequest.avsc",
         <<105, 110, 115, 105, 103, 104, 116, 46, 116, 114, 97, 110, 115, 112, 111, 114, 116, 46, 83, 116, 114, 101, 97, 109, 84, 114, 97, 99, 107, 85, 110, 105, 116, 115, 82, 101, 113, 117, 101, 115, 116, 46, 97, 118, 115, 99>>>>,
       <<"insight.transport.StreamTrackUnitsResponse.avsc",
         <<105, 110, 115, 105, 103, 104, 116, 46, 116, 114, 97, 110, 115, 112, 111, 114, 116, 46, 83, 116, 114, 101, 97, 109, 84, 114, 97, 99, 107, 85, 110, 105, 116, 115, 82, 101, 115, 112, 111, 110, 115, 101, 46, 97, 118, 115, 99>>>>,
       <<"insight.transport.MessageEnvelope.avsc",
         <<105, 110, 115, 105, 103, 104, 116, 46, 116, 114, 97, 110, 115, 112, 111, 114, 116, 46, 77, 101, 115, 115, 97, 103, 101, 69, 110, 118, 101, 108, 111, 112, 101, 46, 97, 118, 115, 99>>>>,
       <<"insight.transport.PingRequestResponse.avsc",
         <<105, 110, 115, 105, 103, 104, 116, 46, 116, 114, 97, 110, 115, 112, 111, 114, 116, 46, 80, 105, 110, 103, 82, 101, 113, 117, 101, 115, 116, 82, 101, 115, 112, 111, 110, 115, 101, 46, 97, 118, 115, 99>>>>,
       <<"insight.transport.KeepAliveMessage.avsc",
         <<105, 110, 115, 105, 103, 104, 116, 46, 116, 114, 97, 110, 115, 112, 111, 114, 116, 46, 75, 101, 101, 112, 65, 108, 105, 118, 101, 77, 101, 115, 115, 97, 103, 101, 46, 97, 118, 115, 99>>>>,
       <<"insight.ffprobe.Request.avsc",
         <<105, 110, 115, 105, 103, 104, 116, 46, 102, 102, 112, 114, 111, 98, 101, 46, 82, 101, 113, 117, 101, 115, 116, 46, 97, 118, 115, 99>>>>,
       <<"insight.ffprobe.Response.avsc",
         <<105, 110, 115, 105, 103, 104, 116, 46, 102, 102, 112, 114, 111, 98, 101, 46, 82, 101, 115, 112, 111, 110, 115, 101, 46, 97, 118, 115, 99>>>>,
       <<"insight.transport.Unknown.avsc",
         <<105, 110, 115, 105, 103, 104, 116, 46, 116, 114, 97, 110, 115, 112, 111, 114, 116, 46, 85, 110, 107, 110, 111, 119, 110, 46, 97, 118, 115, 99>>>>,
       <<"t",
         <<116>>>>,
       <<"u",
         <<117>>>>,
       <<"a",
         <<97>>>>,
       <<"c",
         <<99>>>>,
       <<"b",
         <<98>>>>,
       <<"d",
         <<100>>>>,
       <<"m",
         <<109>>>>,
       <<"/v",
         <<47, 118>>>>,
       <<"",
         <<>>>>
    >>

\* &str -> Vec<u8>
Utf8(s) ==
    LET i == CHOOSE i \in 1..Len(StringTable) : StringTable[i][1] = s
    IN  StringTable[i][2]

\* str::from_utf8: the model's text is ASCII, so a byte >= 0x80 is never
\* part of a valid sequence here (the inputs use 0xFF, invalid everywhere)
IsUtf8(b) == \A i \in 1..Len(b) : b[i] < 128

\* the string of valid bytes; text outside the table collapses to "?"
TextAt(rows) == IF rows = {} THEN "?" ELSE StringTable[CHOOSE i \in rows : TRUE][1]
FromUtf8(b) == TextAt({ i \in 1..Len(StringTable) : StringTable[i][2] = b })

----------------------------------------------------------------------------
(* avro_rs::types::Value: the generic schema-tree value. *)

VNull == [k |-> "Null", v |-> 0]
VBoolean(b) == [k |-> "Boolean", v |-> b]
VInt(n) == [k |-> "Int", v |-> n]
VLong(n) == [k |-> "Long", v |-> n]
VBytes(b) == [k |-> "Bytes", v |-> b]
VString(s) == [k |-> "String", v |-> s]
\* Value::Enum(index, literal)
VEnum(i, s) == [k |-> "Enum", v |-> <<i, s>>]
\* Value::Array(Vec<Value>)
VArray(items) == [k |-> "Array", v |-> items]
\* Value::Map(HashMap<String, Value>): the set of its <<key, value>> pairs
VMap(pairs) == [k |-> "Map", v |-> pairs]
\* Value::Record(Vec<(String, Value)>): a sequence of <<name, value>> pairs
VRecord(fields) == [k |-> "Record", v |-> fields]

----------------------------------------------------------------------------
(* avro_rs::Schema, as far as the messages use it. *)

SNull == [k |-> "null"]
SBoolean == [k |-> "boolean"]
SInt == [k |-> "int"]
SLong == [k |-> "long"]
SBytes == [k |-> "bytes"]
SString == [k |-> "string"]
SArray(items) == [k |-> "array", items |-> items]
SMap(values) == [k |-> "map", values |-> values]
\* Schema::Enum { name: Name { name, namespace }, symbols }
SEnum(ns, name, symbols) ==
    [k |-> "enum", namespace |-> ns, name |-> name, symbols |-> symbols]
\* Schema::Record { name: Name { name, namespace }, fields }; a field is
\* <<name, schema>>
SRecord(ns, name, fields) ==
    [k |-> "record", namespace |-> ns, name |-> name, fields |-> fields]

\* Schema::Fixed { name: Name { name, namespace }, size }
SFixed(ns, name, size) ==
    [k |-> "fixed", namespace |-> ns, name |-> name, size |-> size]

\* The schema files of the manifest, as the mappings read and write them:
\* field names from the put calls of save, field order and kinds from the
\* slice patterns of load.

TrackTypeSchema ==
    SEnum(Some("insight.storage"), "TrackType", <<"VIDEO", "META">>)

TrackInfoSchema ==
    SRecord(Some("insight.storage"), "TrackInfo",
            << <<"name", SBytes>>, <<"type", TrackTypeSchema>> >>)

UnitSchema ==
    SRecord(Some("insight.storage"), "Unit",
            << <<"stream_name", SBytes>>, <<"track_name", SBytes>>,
               <<"track_type", TrackTypeSchema>>, <<"unit", SLong>> >>)

UnitElementValueSchema ==
    SRecord(Some("insight.storage"), "UnitElementValue",
            << <<"data", SBytes>>, <<"attributes", SMap(SString)>> >>)

UnitElementMessageSchema ==
    SRecord(Some("insight.storage"), "UnitElementMessage",
            << <<"stream_unit", UnitSchema>>, <<"element", SLong>>,
               <<"value", SBytes>>, <<"attributes", SMap(SString)>>,
               <<"last", SBoolean>> >>)

NotifyTypeSchema == SEnum(None, "NotifyType", <<"READY", "NEW">>)

NotifyMessageSchema ==
    SRecord(None, "NotifyMessage",
            << <<"stream_unit", UnitSchema>>, <<"last_element", SInt>>,
               <<"saved_ms", SLong>>, <<"notify_type", NotifyTypeSchema>> >>)

StreamTracksRequestSchema ==
    SRecord(None, "StreamTracksRequest",
            << <<"request_id", SLong>>, <<"topic", SString>>,
               <<"stream_name", SBytes>> >>)

StreamTracksResponseSchema ==
    SRecord(None, "StreamTracksResponse",
            << <<"request_id", SLong>>, <<"stream_name", SBytes>>,
               <<"tracks", SArray(TrackInfoSchema)>> >>)

StreamTrackUnitElementsRequestSchema ==
    SRecord(None, "StreamTrackUnitElementsRequest",
            << <<"request_id", SLong>>, <<"topic", SString>>,
               <<"stream_unit", UnitSchema>>, <<"max_element", SLong>> >>)

StreamTrackUnitElementsResponseSchema ==
    SRecord(None, "StreamTrackUnitElementsResponse",
            << <<"request_id", SLong>>, <<"stream_unit", UnitSchema>>,
               <<"values", SArray(UnitElementValueSchema)>> >>)

StreamTrackUnitsRequestSchema ==
    SRecord(None, "StreamTrackUnitsRequest",
            << <<"request_id", SLong>>, <<"topic", SString>>,
               <<"stream_unit", UnitSchema>>, <<"from_ms", SLong>>,
               <<"to_ms", SLong>> >>)

StreamTrackUnitsResponseSchema ==
    SRecord(None, "StreamTrackUnitsResponse",
            << <<"request_id", SLong>>, <<"stream_unit", UnitSchema>>,
               <<"from_ms", SLong>>, <<"to_ms", SLong>>,
               <<"units", SArray(SLong)>> >>)

PingTypeSchema == SEnum(None, "PingRequestResponseType", <<"REQUEST", "RESPONSE">>)

PingRequestResponseSchema ==
    SRecord(None, "PingRequestResponse",
            << <<"request_id", SLong>>, <<"topic", SString>>,
               <<"type", PingTypeSchema>> >>)

KeepAliveMessageSchema ==
    SRecord(None, "KeepAliveMessage", << <<"module_id", SString>> >>)

MessageEnvelopeSchema ==
    SRecord(None, "MessageEnvelope",
            << <<"schema", SBytes>>, <<"payload", SBytes>> >>)

FFProbeRequestSchema ==
    SRecord(Some("insight.ffprobe"), "Request",
            << <<"request_id", SLong>>, <<"topic", SString>>,
               <<"url", SString>>, <<"attributes", SMap(SString)>> >>)

FFProbeResponseTypeSchema ==
    SEnum(Some("insight.ffprobe"), "ResponseType",
          <<"ACCEPTED", "COMPLETE", "ERROR">>)

FFProbeResponseSchema ==
    SRecord(Some("insight.ffprobe"), "Response",
            << <<"request_id", SLong>>, <<"response_type", FFProbeResponseTypeSchema>>,
               <<"time_spent", SLong>>, <<"streams", SArray(SMap(SString))>> >>)

----------------------------------------------------------------------------
(* The external codec: avro_rs::to_avro_datum / from_avro_datum, the        *)
(* canonical binary encoding driven by a schema.                            *)

ZigZag(n) == IF n >= 0 THEN 2 * n ELSE -2 * n - 1
UnZigZag(z) == IF z % 2 = 0 THEN z \div 2 ELSE -((z + 1) \div 2)

RECURSIVE VarInt(_)
VarInt(n) == IF n < 128 THEN <<n>> ELSE <<(n % 128) + 128>> \o VarInt(n \div 128)

EncodeLong(n) == VarInt(ZigZag(n))
EncodeBytes(b) == EncodeLong(Len(b)) \o b

\* Value::validate(schema): what to_avro_datum checks before it writes
RECURSIVE Validate(_, _)
Validate(s, x) ==
    CASE s.k = "null" -> x.k = "Null"
      [] s.k = "boolean" -> x.k = "Boolean"
      [] s.k = "int" -> x.k = "Int"
      [] s.k = "long" -> x.k = "Long"
      [] s.k = "bytes" -> x.k = "Bytes"
      [] s.k = "string" -> x.k = "String"
      [] s.k = "enum" ->
            /\ x.k = "Enum"
            /\ x.v[1] >= 0 /\ x.v[1] < Len(s.symbols)
            /\ s.symbols[x.v[1] + 1] = x.v[2]
      [] s.k = "array" ->
            /\ x.k = "Array"
            /\ \A i \in 1..Len(x.v) : Validate(s.items, x.v[i])
      [] s.k = "map" ->
            /\ x.k = "Map"
            /\ \A p \in x.v : Validate(s.values, p[2])
      [] s.k = "record" ->
            /\ x.k = "Record"
            /\ Len(x.v) = Len(s.fields)
            /\ \A i \in 1..Len(x.v) :
                  /\ x.v[i][1] = s.fields[i][1]
                  /\ Validate(s.fields[i][2], x.v[i][2])
      [] OTHER -> FALSE

\* Every byte string the encoder can write for a valid value: one per order
\* in which the maps inside it are iterated.
RECURSIVE Encodings(_, _)
RECURSIVE EncodeSeq(_, _)
RECURSIVE EncodeEntries(_, _)

\* the encodings of values xs[i] against schemas ss[i], concatenated
EncodeSeq(ss, xs) ==
    IF xs = << >> THEN { << >> }
    ELSE { a \o b : a \in Encodings(Head(ss), Head(xs)),
                    b \in EncodeSeq(Tail(ss), Tail(xs)) }

\* the map entries es (a sequence of <<key, value>>) in that order
EncodeEntries(s, es) ==
    IF es = << >> THEN { << >> }
    ELSE { EncodeBytes(Utf8(Head(es)[1])) \o a \o b :
              a \in Encodings(s, Head(es)[2]),
              b \in EncodeEntries(s, Tail(es)) }

Encodings(s, x) ==
    CASE x.k = "Null" -> { << >> }
      [] x.k = "Boolean" -> { <<IF x.v THEN 1 ELSE 0>> }
      [] x.k = "Int" -> { EncodeLong(x.v) }
      [] x.k = "Long" -> { EncodeLong(x.v) }
      [] x.k = "Bytes" -> { EncodeBytes(x.v) }
      [] x.k = "String" -> { EncodeBytes(Utf8(x.v)) }
      [] x.k = "Enum" -> { EncodeLong(x.v[1]) }
      [] x.k = "Array" ->
            IF x.v = << >> THEN { <<0>> }
            ELSE { EncodeLong(Len(x.v)) \o b \o <<0>> :
                      b \in EncodeSeq([i \in 1..Len(x.v) |-> s.items], x.v) }
      [] x.k = "Map" ->
            IF x.v = {} THEN { <<0>> }
            ELSE UNION { { EncodeLong(Cardinality(x.v)) \o b \o <<0>> :
                              b \in EncodeEntries(s.values, o) } :
                         o \in Orders(x.v) }
      [] x.k = "Record" ->
            EncodeSeq([i \in 1..Len(x.v) |-> s.fields[i][2]],
                      [i \in 1..Len(x.v) |-> x.v[i][2]])

\* to_avro_datum(schema, value): Err (empty set) when validation fails
ToAvroDatum(s, x) == IF Validate(s, x) THEN Encodings(s, x) ELSE {}

\* A decode step returns [ok, v, rest]: the value read and the bytes left.
DecodeFail == [ok |-> FALSE, v |-> VNull, rest |-> << >>]
DecodeOk(x, rest) == [ok |-> TRUE, v |-> x, rest |-> rest]

\* zag_i64: a variable-length integer of at most 10 bytes, as [ok, n, rest]
RECURSIVE ReadVarInt(_, _)
\* the byte low, with its continuation bit set, before the digits of r
MoreDigits(low, r) ==
    IF r.ok THEN [ok |-> TRUE, n |-> (low - 128) + 128 * r.n, rest |-> r.rest]
    ELSE r
ReadVarInt(b, depth) ==
    IF b = << >> \/ depth > 10 THEN [ok |-> FALSE, n |-> 0, rest |-> << >>]
    ELSE IF b[1] < 128 THEN [ok |-> TRUE, n |-> b[1], rest |-> Tail(b)]
    ELSE MoreDigits(b[1], ReadVarInt(Tail(b), depth + 1))

UnZigZagged(r) ==
    IF r.ok THEN [ok |-> TRUE, n |-> UnZigZag(r.n), rest |-> r.rest] ELSE r
DecodeLong(b) == UnZigZagged(ReadVarInt(b, 1))

\* a run of r.n bytes after its length r
TakeBytes(r) ==
    IF r.ok /\ r.n >= 0 /\ r.n <= Len(r.rest)
    THEN [ok |-> TRUE, v |-> SubSeq(r.rest, 1, r.n),
          rest |-> SubSeq(r.rest, r.n + 1, Len(r.rest))]
    ELSE [ok |-> FALSE, v |-> << >>, rest |-> << >>]
\* a length-prefixed run of bytes
DecodeBytes(b) == TakeBytes(DecodeLong(b))

\* the header of a block of an array or a map, as [ok, n, rest]: its item
\* count, and after a negative count the block's size in bytes
BlockSized(n, size) ==
    IF size.ok THEN [ok |-> TRUE, n |-> n, rest |-> size.rest] ELSE size
BlockCounted(count) ==
    IF ~count.ok \/ count.n >= 0 THEN count
    ELSE BlockSized(-count.n, DecodeLong(count.rest))
BlockHeader(b) == BlockCounted(DecodeLong(b))

\* HashMap::insert: the later entry of a key replaces the earlier one
MapInsert(pairs, key, x) == { p \in pairs : p[1] # key } \cup { <<key, x>> }

\* the value x read first, before the values of t
Prepend(x, t) ==
    IF t.ok THEN [ok |-> TRUE, v |-> <<x>> \o t.v, rest |-> t.rest] ELSE DecodeFail
\* the items read first, before the blocks of more
AppendBlocks(items, more) ==
    IF more.ok THEN [ok |-> TRUE, v |-> items \o more.v, rest |-> more.rest]
    ELSE DecodeFail

\* what a step makes of the primitive it read
LongValue(kind, r) ==
    IF r.ok THEN DecodeOk([k |-> kind, v |-> r.n], r.rest) ELSE DecodeFail
BooleanValue(b) ==
    IF b # << >> /\ b[1] \in {0, 1} THEN DecodeOk(VBoolean(b[1] = 1), Tail(b))
    ELSE DecodeFail
BytesValue(r) == IF r.ok THEN DecodeOk(VBytes(r.v), r.rest) ELSE DecodeFail
StringValue(r) ==
    IF r.ok /\ IsUtf8(r.v) THEN DecodeOk(VString(FromUtf8(r.v)), r.rest)
    ELSE DecodeFail
EnumValue(symbols, r) ==
    IF r.ok /\ r.n >= 0 /\ r.n < Len(symbols)
    THEN DecodeOk(VEnum(r.n, symbols[r.n + 1]), r.rest)
    ELSE DecodeFail
Composite(kind, r) ==
    IF r.ok THEN DecodeOk([k |-> kind, v |-> r.v], r.rest) ELSE DecodeFail

RECURSIVE Decode(_, _)
RECURSIVE DecodeFields(_, _)
RECURSIVE DecodeItems(_, _, _)
RECURSIVE DecodeArray(_, _)
RECURSIVE DecodeEntries(_, _, _, _)
RECURSIVE DecodeMap(_, _, _)

\* the fields fs of a record, in schema order; h is the first field read
DecodeFieldsAfter(fs, h) ==
    IF ~h.ok THEN DecodeFail
    ELSE Prepend(<<Head(fs)[1], h.v>>, DecodeFields(Tail(fs), h.rest))
DecodeFields(fs, b) ==
    IF fs = << >> THEN [ok |-> TRUE, v |-> << >>, rest |-> b]
    ELSE DecodeFieldsAfter(fs, Decode(Head(fs)[2], b))

\* n items of one block; h is the first item read
DecodeItemsAfter(s, n, h) ==
    IF ~h.ok THEN DecodeFail
    ELSE Prepend(h.v, DecodeItems(s, h.rest, n - 1))
DecodeItems(s, b, n) ==
    IF n = 0 THEN [ok |-> TRUE, v |-> << >>, rest |-> b]
    ELSE DecodeItemsAfter(s, n, Decode(s, b))

\* the blocks of an array up to the zero count
DecodeArrayAfter(s, items) ==
    IF ~items.ok THEN DecodeFail
    ELSE AppendBlocks(items.v, DecodeArray(s, items.rest))
DecodeArrayBlock(s, header) ==
    IF ~header.ok THEN DecodeFail
    ELSE IF header.n = 0 THEN [ok |-> TRUE, v |-> << >>, rest |-> header.rest]
    ELSE DecodeArrayAfter(s, DecodeItems(s, header.rest, header.n))
DecodeArray(s, b) == DecodeArrayBlock(s, BlockHeader(b))

\* n entries of one map block, inserted into acc
DecodeEntryValue(s, n, acc, key, x) ==
    IF ~x.ok THEN DecodeFail
    ELSE DecodeEntries(s, x.rest, n - 1, MapInsert(acc, key, x.v))
DecodeEntryKey(s, n, acc, key) ==
    IF ~key.ok \/ ~IsUtf8(key.v) THEN DecodeFail
    ELSE DecodeEntryValue(s, n, acc, FromUtf8(key.v), Decode(s, key.rest))
DecodeEntries(s, b, n, acc) ==
    IF n = 0 THEN [ok |-> TRUE, v |-> acc, rest |-> b]
    ELSE DecodeEntryKey(s, n, acc, DecodeBytes(b))

\* the blocks of a map up to the zero count
DecodeMapAfter(s, entries) ==
    IF ~entries.ok THEN DecodeFail
    ELSE DecodeMap(s, entries.rest, entries.v)
DecodeMapBlock(s, acc, header) ==
    IF ~header.ok THEN DecodeFail
    ELSE IF header.n = 0 THEN [ok |-> TRUE, v |-> acc, rest |-> header.rest]
    ELSE DecodeMapAfter(s, DecodeEntries(s, header.rest, header.n, acc))
DecodeMap(s, b, acc) == DecodeMapBlock(s, acc, BlockHeader(b))

Decode(s, b) ==
    CASE s.k = "null" -> DecodeOk(VNull, b)
      [] s.k = "boolean" -> BooleanValue(b)
      [] s.k = "int" -> LongValue("Int", DecodeLong(b))
      [] s.k = "long" -> LongValue("Long", DecodeLong(b))
      [] s.k = "bytes" -> BytesValue(DecodeBytes(b))
      [] s.k = "string" -> StringValue(DecodeBytes(b))
      [] s.k = "enum" -> EnumValue(s.symbols, DecodeLong(b))
      [] s.k = "array" -> Composite("Array", DecodeArray(s.items, b))
      [] s.k = "map" -> Composite("Map", DecodeMap(s.values, b, {}))
      [] s.k = "record" -> Composite("Record", DecodeFields(s.fields, b))

\* from_avro_datum(schema, reader, None): Ok(value) or Err; bytes left after
\* the value are not looked at
Decoded(r) == IF r.ok THEN Some(r.v) ELSE None
FromAvroDatum(s, b) == Decoded(Decode(s, b))

----------------------------------------------------------------------------
(* Call outcomes.  A Rust call either returns a value or panics (the        *)
(* process aborts and nothing is returned).                                 *)

Panic == [panic |-> TRUE, v |-> None]
Ret(x) == [panic |-> FALSE, v |-> Some(x)]
\* the value a call returned
Val(r) == r.v[1]

\* Result<T, String>: Ok(x) or Err(text)
Ok(x) == [ok |-> TRUE, v |-> Some(x), err |-> ""]
Err(e) == [ok |-> FALSE, v |-> None, err |-> e]

----------------------------------------------------------------------------
(* Integer casts.  Long values of the model are small; an unsigned 64- or   *)
(* 128-bit value is [e |-> e, r |-> r], standing for r when e = 0 and for   *)
(* 2^e + r otherwise, so the values next to 0, 2^63, 2^64 and 2^128 are     *)
(* exact.                                                                   *)

Wide(e, r) == [e |-> e, r |-> r]

I64AsI16Saturating(n) ==
    IF n > 32767 THEN 32767 ELSE IF n < -32768 THEN -32768 ELSE n

\* i64 as i16: wraps modulo 2^16
I64AsI16(n) == ((n + 32768) % 65536) - 32768
\* i32 as i16
I32AsI16(n) == ((n + 32768) % 65536) - 32768
\* i64 as u64: a negative n becomes 2^64 + n
I64AsU64(n) == IF n >= 0 THEN Wide(0, n) ELSE Wide(64, n)
\* u64 as i64: 2^64 + r (r < 0) becomes r
U64AsI64(w) == w.r
\* i64 as u128: sign-extends, a negative n becomes 2^128 + n
I64AsU128(n) == IF n >= 0 THEN Wide(0, n) ELSE Wide(128, n)
\* i64::try_from(u128): Err above i64::MAX
I64TryFromU128(w) == IF w.e = 0 THEN Some(w.r) ELSE None

----------------------------------------------------------------------------
(* src/utils.rs and src/primitives.rs *)

\* [0; TRACK_NAME_MAX_LENGTH]
get_empty_track_name == [i \in 1..TRACK_NAME_MAX_LENGTH |-> 0]
\* StreamName::default()
EmptyStreamName == [i \in 1..STREAM_NAME_MAX_LENGTH |-> 0]

\* buf[..len].clone_from_slice(from): clone_from_slice panics unless the two
\* slices have the same length, that is unless from.len() <= buf.len()
fill_byte_array(b, from) ==
    LET len == Min(Len(b), Len(from))
    IN  IF Len(from) # len THEN Panic
        ELSE Ret([i \in 1..Len(b) |-> IF i <= len THEN from[i] ELSE b[i]])

\* a pack_track_name that cut an over-long name to its first bytes
pack_track_name_truncating(name) ==
    Ok([i \in 1..TRACK_NAME_MAX_LENGTH |->
           IF i <= Len(name) THEN name[i] ELSE get_empty_track_name[i]])

\* pack_track_name; name is track_name.as_bytes()
pack_track_name(name) ==
    LET name_len == Len(name)
    IN  IF name_len > TRACK_NAME_MAX_LENGTH
        THEN Err("Invalid track name length. Must me less than 16 characters.")
        ELSE Ok([i \in 1..TRACK_NAME_MAX_LENGTH |->
                    IF i <= name_len THEN name[i] ELSE get_empty_track_name[i]])

\* a literal table whose fall-through arm was Video
track_type_literal_or_video(literal) ==
    CASE literal = "META" -> "Meta"
      [] OTHER -> "Video"

track_type_literal_to_track_type(literal) ==
    CASE literal = "VIDEO" -> "Video"
      [] literal = "META" -> "Meta"
      [] OTHER -> "NotImplemented"

\* Unit::new
UnitNew(stream_name, track_name, track_type, unit) ==
    LET b_stream_name == fill_byte_array(EmptyStreamName, stream_name)
        b_track_name == fill_byte_array(get_empty_track_name, track_name)
    IN  IF b_stream_name.panic \/ b_track_name.panic THEN Panic
        ELSE Ret([stream_name |-> Val(b_stream_name),
                  track_name |-> Val(b_track_name),
                  track_type |-> track_type_literal_to_track_type(track_type),
                  unit |-> unit])

\* a conversion that writes a literal of its own for NotImplemented
get_track_type_enum_inventing(track_type) ==
    CASE track_type = "Video" -> Ret(VEnum(0, "VIDEO"))
      [] track_type = "Meta" -> Ret(VEnum(1, "META"))
      [] OTHER -> Ret(VEnum(2, "NOT_IMPLEMENTED"))

get_track_type_enum(track_type) ==
    CASE track_type = "Video" -> Ret(VEnum(0, "VIDEO"))
      [] track_type = "Meta" -> Ret(VEnum(1, "META"))
      [] OTHER -> Panic

\* Unit::to_avro_record
to_avro_record(u) ==
    LET tt == get_track_type_enum(u.track_type)
    IN  IF tt.panic THEN Panic
        ELSE Ret(VRecord(<< <<"stream_name", VBytes(u.stream_name)>>,
                            <<"track_name", VBytes(u.track_name)>>,
                            <<"track_type", Val(tt)>>,
                            <<"unit", VLong(u.unit)>> >>))

value_to_string(x) == IF x.k = "String" THEN Some(x.v) ELSE None

\* gen_hash_map: HashMap<String, String> -> Value::Map
gen_hash_map(s) == VMap({ <<p[1], VString(p[2])>> : p \in s })

\* attributes.iter().map(|x| (x.0.clone(),
\*     value_to_string(x.1).or(Some(String::from(""))).unwrap())).collect()
AttributesFromMap(pairs) ==
    { <<p[1], IF IsSome(value_to_string(p[2])) THEN Unwrap(value_to_string(p[2]))
              ELSE "">> : p \in pairs }

----------------------------------------------------------------------------
(* The schema directory: src/avro.rs, BuilderImpl. *)

\* BuilderImpl::schema_files: the manifest of (group, file) pairs
schema_files ==
    << <<STORAGE_SCHEMAS, TRACK_TYPE_SCHEMA>>,
       <<STORAGE_SCHEMAS, TRACK_INFO_SCHEMA>>,
       <<STORAGE_SCHEMAS, UNIT_SCHEMA>>,
       <<STORAGE_SCHEMAS, UNIT_ELEMENT_VALUE_SCHEMA>>,
       <<STORAGE_SCHEMAS, UNIT_ELEMENT_MESSAGE_SCHEMA>>,
       <<TRANSPORT_SCHEMAS, NOTIFY_MESSAGE_SCHEMA>>,
       <<TRANSPORT_SCHEMAS, STREAM_TRACKS_REQUEST_SCHEMA>>,
       <<TRANSPORT_SCHEMAS, STREAM_TRACKS_RESPONSE_SCHEMA>>,
       <<TRANSPORT_SCHEMAS, STREAM_TRACK_UNIT_ELEMENTS_REQUEST_SCHEMA>>,
       <<TRANSPORT_SCHEMAS, STREAM_TRACK_UNIT_ELEMENTS_RESPONSE_SCHEMA>>,
       <<TRANSPORT_SCHEMAS, STREAM_TRACK_UNITS_REQUEST_SCHEMA>>,
       <<TRANSPORT_SCHEMAS, STREAM_TRACK_UNITS_RESPONSE_SCHEMA>>,
       <<TRANSPORT_SCHEMAS, PING_REQUEST_RESPONSE_SCHEMA>>,
       <<TRANSPORT_SCHEMAS, KEEPALIVE_MESSAGE_SCHEMA>>,
       <<TRANSPORT_SCHEMAS, MESSAGE_ENVELOPE_SCHEMA>>,
       <<SERVICE_FFPROBE_SCHEMAS, SERVICES_FFPROBE_REQUEST_SCHEMA>>,
       <<SERVICE_FFPROBE_SCHEMAS, SERVICES_FFPROBE_RESPONSE_SCHEMA>> >>

\* Schema::parse_list over the files of the manifest, in manifest order
ParsedSchemas ==
    << TrackTypeSchema, TrackInfoSchema, UnitSchema, UnitElementValueSchema,
       UnitElementMessageSchema, NotifyMessageSchema, StreamTracksRequestSchema,
       StreamTracksResponseSchema, StreamTrackUnitElementsRequestSchema,
       StreamTrackUnitElementsResponseSchema, StreamTrackUnitsRequestSchema,
       StreamTrackUnitsResponseSchema, PingRequestResponseSchema,
       KeepAliveMessageSchema, MessageEnvelopeSchema, FFProbeRequestSchema,
       FFProbeResponseSchema >>

\* a full name that leaves out the namespace a schema does not declare
FullNameUndeclared(s) ==
    IF IsSome(s.namespace) THEN Unwrap(s.namespace) \o "." \o s.name \o ".avsc"
    ELSE s.name \o ".avsc"

\* full_name = namespace.unwrap_or("insight.transport") + "." + name + ".avsc"
FullName(s) ==
    (IF IsSome(s.namespace) THEN Unwrap(s.namespace) ELSE "insight.transport")
        \o "." \o s.name \o ".avsc"

\* a loop whose match has no arm for Schema::Enum
RECURSIVE InsertRecords(_, _)
InsertRecords(named_schemas, schemas) ==
    IF schemas = << >> THEN named_schemas
    ELSE LET s == Head(schemas)
             next == IF s.k = "record"
                     THEN [n \in DOMAIN named_schemas \cup {FullName(s)} |->
                             IF n = FullName(s) THEN s ELSE named_schemas[n]]
                     ELSE named_schemas
         IN  InsertRecords(next, Tail(schemas))

\* a loop that inserts with entry(full_name).or_insert(s): the first stays
RECURSIVE InsertAllKeepingFirst(_, _)
InsertAllKeepingFirst(named_schemas, schemas) ==
    IF schemas = << >> THEN named_schemas
    ELSE LET s == Head(schemas)
             next == IF s.k \in {"enum", "record"}
                     THEN [n \in DOMAIN named_schemas \cup {FullName(s)} |->
                             IF n \in DOMAIN named_schemas THEN named_schemas[n]
                             ELSE s]
                     ELSE named_schemas
         IN  InsertAllKeepingFirst(next, Tail(schemas))

\* the for loop of BuilderImpl::new: named_schemas.insert(full_name, s) for
\* every enum and record of the list, a later insert replacing an earlier
RECURSIVE InsertAll(_, _)
InsertAll(named_schemas, schemas) ==
    IF schemas = << >> THEN named_schemas
    ELSE LET s == Head(schemas)
             next == IF s.k \in {"enum", "record"}
                     THEN [n \in DOMAIN named_schemas \cup {FullName(s)} |->
                             IF n = FullName(s) THEN s ELSE named_schemas[n]]
                     ELSE named_schemas
         IN  InsertAll(next, Tail(schemas))

\* BuilderImpl::new
BuilderImplNew == InsertAll([n \in {} |-> SNull], ParsedSchemas)

\* The files under a path prefix: for the i-th pair of the manifest, None
\* when the file is missing or unreadable, Some(text) otherwise.  A text
\* that parses is written as the schema it declares; Unparsable is a text
\* that is no schema.
Unparsable == [k |-> "unparsable"]

\* utils::load_file(prefix.join(group), file) for the i-th manifest pair:
\* fs::read_to_string(&path).unwrap_or_else(|e| panic!(..))
load_file(path_prefix, i) ==
    IF path_prefix[i] = None THEN Panic ELSE Ret(Unwrap(path_prefix[i]))

\* schemas_raw: Self::schema_files().iter().map(|schema| load_file(..))
\*     .collect(), in manifest order
schemas_raw(path_prefix) ==
    IF \E i \in 1..Len(schema_files) : load_file(path_prefix, i).panic THEN Panic
    ELSE Ret([i \in 1..Len(schema_files) |-> Val(load_file(path_prefix, i))])

\* Schema::parse_list(&schemas_raw_str): one schema per text, in the order
\* of the texts, or Err for the whole batch
parse_list(raw) ==
    IF \E i \in 1..Len(raw) : raw[i] = Unparsable
    THEN Err("Failed to parse schema")
    ELSE Ok(raw)

\* Schema::parse_list(..).unwrap() and the loop over its schemas
UnwrapParsed(parsed) ==
    IF ~parsed.ok THEN Panic
    ELSE Ret(InsertAll([n \in {} |-> SNull], Unwrap(parsed.v)))

\* a construction that leaves out the files it cannot read
BuilderImpl_new_skipping(path_prefix) ==
    UnwrapParsed(parse_list(
        [i \in 1..Cardinality({ j \in 1..Len(schema_files) : path_prefix[j] # None }) |->
            Unwrap(path_prefix[
                CHOOSE j \in 1..Len(schema_files) :
                    /\ path_prefix[j] # None
                    /\ Cardinality({ k \in 1..j : path_prefix[k] # None }) = i])]))

\* BuilderImpl::new(path_prefix)
BuilderImpl_new(path_prefix) ==
    IF schemas_raw(path_prefix).panic THEN Panic
    ELSE UnwrapParsed(parse_list(Val(schemas_raw(path_prefix))))

\* BuilderImpl::get_schema
get_schema(dir, schema_name) ==
    IF schema_name \in DOMAIN dir THEN Some(dir[schema_name]) ELSE None

\* Record::new(schema): every field of the schema, holding Null; None for a
\* schema that is no record
RecordNew(s) ==
    IF s.k = "record" THEN Some([i \in 1..Len(s.fields) |-> <<s.fields[i][1], VNull>>])
    ELSE None

\* Record::put: sets the field of that name; a name the schema lacks is ignored
Put(rec, name, x) ==
    [i \in 1..Len(rec) |-> IF rec[i][1] = name THEN <<name, x>> ELSE rec[i]]

\* Builder::get_record: Record::new(get_schema(name).unwrap()).unwrap()
get_record(dir, schema_name) ==
    LET s == get_schema(dir, schema_name)
    IN  IF ~IsSome(s) THEN Panic
        ELSE IF ~IsSome(RecordNew(Unwrap(s))) THEN Panic
        ELSE Ret(Unwrap(RecordNew(Unwrap(s))))

\* ProtocolMessage { schema, object }
ProtocolMessage(schema, object) == [schema |-> schema, object |-> object]

----------------------------------------------------------------------------
(* The value mapping layer: FromProtocolMessage::load and                   *)
(* ToProtocolMessage::save of every registered type.  load returns          *)
(* Ret(Some(t)), Ret(None) or panics; save returns Ret(Some(message)) or    *)
(* panics.                                                                  *)

\* the kinds of the values of a record's fields, in order: what a slice
\* pattern [(_, Value::Long(..)), (_, Value::String(..)), ..] looks at
Kinds(fields) == [i \in 1..Len(fields) |-> fields[i][2].k]

\* the value of field i of a Value::Record
Field(x, i) == x.v[i][2]

\* [(_, Bytes(stream_name)), (_, Bytes(track_name)), (_, Enum(_, track_type)),
\*  (_, Long(unit))]
UnitPattern == <<"Bytes", "Bytes", "Enum", "Long">>

\* Unit::new(stream_name.clone(), track_name.clone(), track_type.clone(), *unit)
\* on the fields of a record that matched UnitPattern
UnitOfRecord(x) ==
    UnitNew(Field(x, 1).v, Field(x, 2).v, Field(x, 3).v[2], Field(x, 4).v)

\* puts applied in order to a new record
RECURSIVE PutAll(_, _)
PutAll(rec, puts) ==
    IF puts = << >> THEN rec
    ELSE PutAll(Put(rec, Head(puts)[1], Head(puts)[2]), Tail(puts))

\* ---- UnitElementMessage

UnitElementMessage_load(m) ==
    IF m.schema # UNIT_ELEMENT_MESSAGE_SCHEMA THEN Ret(None)
    ELSE IF m.object.k # "Record" THEN Ret(None)
    ELSE IF Kinds(m.object.v) # <<"Record", "Long", "Bytes", "Map", "Boolean">>
         THEN Ret(None)
    ELSE IF Kinds(Field(m.object, 1).v) # UnitPattern THEN Ret(None)
    ELSE LET u == UnitOfRecord(Field(m.object, 1))
         IN  IF u.panic THEN Panic
             ELSE Ret(Some([cls |-> "UnitElementMessage",
                            stream_unit |-> Val(u),
                            element |-> I64AsI16(Field(m.object, 2).v),
                            value |-> Field(m.object, 3).v,
                            attributes |-> AttributesFromMap(Field(m.object, 4).v),
                            last |-> Field(m.object, 5).v]))

UnitElementMessage_save(dir, o) ==
    LET rec == get_record(dir, UNIT_ELEMENT_MESSAGE_SCHEMA)
        su == to_avro_record(o.stream_unit)
    IN  IF rec.panic \/ su.panic THEN Panic
        ELSE Ret(Some(ProtocolMessage(UNIT_ELEMENT_MESSAGE_SCHEMA,
                VRecord(PutAll(Val(rec),
                    << <<"stream_unit", Val(su)>>,
                       <<"element", VLong(o.element)>>,
                       <<"value", VBytes(o.value)>>,
                       <<"attributes", VMap({ <<p[1], VString(p[2])>> : p \in o.attributes })>>,
                       <<"last", VBoolean(o.last)>> >>)))))

\* ---- NotifyMessage

\* a load that reads last_element for NEW as it does for READY
NotifyMessage_load_ready_always(m) ==
    IF m.schema # NOTIFY_MESSAGE_SCHEMA THEN Ret(None)
    ELSE IF m.object.k # "Record" THEN Ret(None)
    ELSE IF Kinds(m.object.v) # <<"Record", "Int", "Long", "Enum">> THEN Ret(None)
    ELSE IF Kinds(Field(m.object, 1).v) # UnitPattern THEN Ret(None)
    ELSE LET u == UnitOfRecord(Field(m.object, 1))
             notify_type == Field(m.object, 4).v[2]
         IN  IF u.panic THEN Panic
             ELSE Ret(Some([cls |-> "NotifyMessage",
                            stream_unit |-> Val(u),
                            saved_ms |-> I64AsU64(Field(m.object, 3).v),
                            notify_type |->
                                CASE notify_type \in {"READY", "NEW"} ->
                                        <<"Ready", I32AsI16(Field(m.object, 2).v)>>
                                  [] OTHER -> <<"NotImplemented">>]))

NotifyMessage_load(m) ==
    IF m.schema # NOTIFY_MESSAGE_SCHEMA THEN Ret(None)
    ELSE IF m.object.k # "Record" THEN Ret(None)
    ELSE IF Kinds(m.object.v) # <<"Record", "Int", "Long", "Enum">> THEN Ret(None)
    ELSE IF Kinds(Field(m.object, 1).v) # UnitPattern THEN Ret(None)
    ELSE LET u == UnitOfRecord(Field(m.object, 1))
             notify_type == Field(m.object, 4).v[2]
         IN  IF u.panic THEN Panic
             ELSE Ret(Some([cls |-> "NotifyMessage",
                            stream_unit |-> Val(u),
                            saved_ms |-> I64AsU64(Field(m.object, 3).v),
                            notify_type |->
                                CASE notify_type = "READY" ->
                                        <<"Ready", I32AsI16(Field(m.object, 2).v)>>
                                  [] notify_type = "NEW" -> <<"New">>
                                  [] OTHER -> <<"NotImplemented">>]))

NotifyMessage_save(dir, o) ==
    LET rec == get_record(dir, NOTIFY_MESSAGE_SCHEMA)
        su == to_avro_record(o.stream_unit)
    IN  IF rec.panic \/ su.panic THEN Panic
        ELSE IF o.notify_type[1] = "NotImplemented" THEN Panic
        ELSE Ret(Some(ProtocolMessage(NOTIFY_MESSAGE_SCHEMA,
                VRecord(PutAll(Val(rec),
                    << <<"stream_unit", Val(su)>>,
                       <<"saved_ms", VLong(U64AsI64(o.saved_ms))>> >> \o
                    (IF o.notify_type[1] = "Ready"
                     THEN << <<"notify_type", VEnum(0, "READY")>>,
                             <<"last_element", VInt(o.notify_type[2])>> >>
                     ELSE << <<"notify_type", VEnum(1, "NEW")>>,
                             <<"last_element", VInt(-1)>> >>))))))

\* ---- PingRequestResponse

PingRequestResponse_load(m) ==
    IF m.schema # PING_REQUEST_RESPONSE_SCHEMA THEN Ret(None)
    ELSE IF m.object.k # "Record" THEN Ret(None)
    ELSE IF Kinds(m.object.v) # <<"Long", "String", "Enum">> THEN Ret(None)
    ELSE Ret(Some([cls |-> "PingRequestResponse",
                   request_id |-> Field(m.object, 1).v,
                   topic |-> Field(m.object, 2).v,
                   mtype |-> IF Field(m.object, 3).v[2] = "REQUEST"
                             THEN "Request" ELSE "Response"]))

PingRequestResponse_save(dir, o) ==
    LET rec == get_record(dir, PING_REQUEST_RESPONSE_SCHEMA)
    IN  IF rec.panic THEN Panic
        ELSE Ret(Some(ProtocolMessage(PING_REQUEST_RESPONSE_SCHEMA,
                VRecord(PutAll(Val(rec),
                    << <<"request_id", VLong(o.request_id)>>,
                       <<"topic", VString(o.topic)>>,
                       <<"type", IF o.mtype = "Request" THEN VEnum(0, "REQUEST")
                                 ELSE VEnum(1, "RESPONSE")>> >>)))))

\* ---- ServicesFFProbeRequest / ServicesFFProbeResponse

get_services_ffprobe_response_type_avro(response_type) ==
    CASE response_type = "Accepted" -> Ret(VEnum(0, "ACCEPTED"))
      [] response_type = "Complete" -> Ret(VEnum(1, "COMPLETE"))
      [] response_type = "Error" -> Ret(VEnum(2, "ERROR"))
      [] OTHER -> Panic

get_services_ffprobe_response_type_enum(response_type) ==
    CASE response_type = "ACCEPTED" -> "Accepted"
      [] response_type = "COMPLETE" -> "Complete"
      [] response_type = "ERROR" -> "Error"
      [] OTHER -> "NotImplemented"

ServicesFFProbeRequest_load(m) ==
    IF m.schema # SERVICES_FFPROBE_REQUEST_SCHEMA THEN Ret(None)
    ELSE IF m.object.k # "Record" THEN Ret(None)
    ELSE IF Kinds(m.object.v) # <<"Long", "String", "String", "Map">> THEN Ret(None)
    ELSE Ret(Some([cls |-> "ServicesFFProbeRequest",
                   request_id |-> Field(m.object, 1).v,
                   topic |-> Field(m.object, 2).v,
                   url |-> Field(m.object, 3).v,
                   attributes |-> AttributesFromMap(Field(m.object, 4).v)]))

ServicesFFProbeResponse_load(m) ==
    IF m.schema # SERVICES_FFPROBE_RESPONSE_SCHEMA THEN Ret(None)
    ELSE IF m.object.k # "Record" THEN Ret(None)
    ELSE IF Kinds(m.object.v) # <<"Long", "Enum", "Long", "Array">> THEN Ret(None)
    ELSE LET streams == Field(m.object, 4).v
         IN  IF \E i \in 1..Len(streams) : streams[i].k # "Map" THEN Panic
             ELSE Ret(Some([cls |-> "ServicesFFProbeResponse",
                            request_id |-> Field(m.object, 1).v,
                            response_type |->
                                get_services_ffprobe_response_type_enum(
                                    Field(m.object, 2).v[2]),
                            time_spent |-> Field(m.object, 3).v,
                            streams |-> [i \in 1..Len(streams) |->
                                            AttributesFromMap(streams[i].v)]]))

ServicesFFProbeRequest_save(dir, o) ==
    LET rec == get_record(dir, SERVICES_FFPROBE_REQUEST_SCHEMA)
    IN  IF rec.panic THEN Panic
        ELSE Ret(Some(ProtocolMessage(SERVICES_FFPROBE_REQUEST_SCHEMA,
                VRecord(PutAll(Val(rec),
                    << <<"request_id", VLong(o.request_id)>>,
                       <<"topic", VString(o.topic)>>,
                       <<"url", VString(o.url)>>,
                       <<"attributes", gen_hash_map(o.attributes)>> >>)))))

ServicesFFProbeResponse_save(dir, o) ==
    LET rec == get_record(dir, SERVICES_FFPROBE_RESPONSE_SCHEMA)
        rt == get_services_ffprobe_response_type_avro(o.response_type)
    IN  IF rec.panic \/ rt.panic THEN Panic
        ELSE Ret(Some(ProtocolMessage(SERVICES_FFPROBE_RESPONSE_SCHEMA,
                VRecord(PutAll(Val(rec),
                    << <<"request_id", VLong(o.request_id)>>,
                       <<"response_type", Val(rt)>>,
                       <<"time_spent", VLong(o.time_spent)>>,
                       <<"streams", VArray([i \in 1..Len(o.streams) |->
                                              gen_hash_map(o.streams[i])])>> >>)))))

\* ---- StreamTrackUnitElementsRequest / StreamTrackUnitElementsResponse

StreamTrackUnitElementsRequest_load(m) ==
    IF m.schema # STREAM_TRACK_UNIT_ELEMENTS_REQUEST_SCHEMA THEN Ret(None)
    ELSE IF m.object.k # "Record" THEN Ret(None)
    ELSE IF Kinds(m.object.v) # <<"Long", "String", "Record", "Long">> THEN Ret(None)
    ELSE IF Kinds(Field(m.object, 3).v) # UnitPattern THEN Ret(None)
    ELSE LET u == UnitOfRecord(Field(m.object, 3))
         IN  IF u.panic THEN Panic
             ELSE Ret(Some([cls |-> "StreamTrackUnitElementsRequest",
                            request_id |-> Field(m.object, 1).v,
                            topic |-> Field(m.object, 2).v,
                            stream_unit |-> Val(u),
                            max_element |-> I64AsI16(Field(m.object, 4).v)]))

StreamTrackUnitElementsRequest_save(dir, o) ==
    LET rec == get_record(dir, STREAM_TRACK_UNIT_ELEMENTS_REQUEST_SCHEMA)
        su == to_avro_record(o.stream_unit)
    IN  IF rec.panic \/ su.panic THEN Panic
        ELSE Ret(Some(ProtocolMessage(STREAM_TRACK_UNIT_ELEMENTS_REQUEST_SCHEMA,
                VRecord(PutAll(Val(rec),
                    << <<"request_id", VLong(o.request_id)>>,
                       <<"topic", VString(o.topic)>>,
                       <<"stream_unit", Val(su)>>,
                       <<"max_element", VLong(o.max_element)>> >>)))))

\* fn to_payload(v: &Value) -> Option<Payload>
to_payload(x) ==
    IF x.k # "Record" THEN None
    ELSE IF Kinds(x.v) # <<"Bytes", "Map">> THEN None
    ELSE Some([data |-> Field(x, 1).v,
               attributes |-> AttributesFromMap(Field(x, 2).v)])

payload_to_avro(p) ==
    VRecord(<< <<"data", VBytes(p.data)>>,
               <<"attributes", VMap({ <<a[1], VString(a[2])>> : a \in p.attributes })>> >>)

\* a load that collects the payloads last to first
StreamTrackUnitElementsResponse_load_reversed(m) ==
    IF m.schema # STREAM_TRACK_UNIT_ELEMENTS_RESPONSE_SCHEMA THEN Ret(None)
    ELSE IF m.object.k # "Record" THEN Ret(None)
    ELSE IF Kinds(m.object.v) # <<"Long", "Record", "Array">> THEN Ret(None)
    ELSE IF Kinds(Field(m.object, 2).v) # UnitPattern THEN Ret(None)
    ELSE LET values == Field(m.object, 3).v
             mapped == [i \in 1..Len(values) |-> to_payload(values[i])]
             values_parsed == SelectSeq(mapped, IsSome)
             u == UnitOfRecord(Field(m.object, 2))
         IN  IF Len(values_parsed) < Len(values) THEN Ret(None)
             ELSE IF u.panic THEN Panic
             ELSE Ret(Some([cls |-> "StreamTrackUnitElementsResponse",
                            request_id |-> Field(m.object, 1).v,
                            stream_unit |-> Val(u),
                            values |-> [i \in 1..Len(values_parsed) |->
                                          Unwrap(values_parsed[
                                              Len(values_parsed) + 1 - i])]]))

StreamTrackUnitElementsResponse_load(m) ==
    IF m.schema # STREAM_TRACK_UNIT_ELEMENTS_RESPONSE_SCHEMA THEN Ret(None)
    ELSE IF m.object.k # "Record" THEN Ret(None)
    ELSE IF Kinds(m.object.v) # <<"Long", "Record", "Array">> THEN Ret(None)
    ELSE IF Kinds(Field(m.object, 2).v) # UnitPattern THEN Ret(None)
    ELSE LET values == Field(m.object, 3).v
             mapped == [i \in 1..Len(values) |-> to_payload(values[i])]
             values_parsed == SelectSeq(mapped, IsSome)
             u == UnitOfRecord(Field(m.object, 2))
         IN  IF Len(values_parsed) < Len(values) THEN Ret(None)
             ELSE IF u.panic THEN Panic
             ELSE Ret(Some([cls |-> "StreamTrackUnitElementsResponse",
                            request_id |-> Field(m.object, 1).v,
                            stream_unit |-> Val(u),
                            values |-> [i \in 1..Len(values_parsed) |->
                                          Unwrap(values_parsed[i])]]))

StreamTrackUnitElementsResponse_save(dir, o) ==
    LET rec == get_record(dir, STREAM_TRACK_UNIT_ELEMENTS_RESPONSE_SCHEMA)
        su == to_avro_record(o.stream_unit)
    IN  IF rec.panic \/ su.panic THEN Panic
        ELSE Ret(Some(ProtocolMessage(STREAM_TRACK_UNIT_ELEMENTS_RESPONSE_SCHEMA,
                VRecord(PutAll(Val(rec),
                    << <<"request_id", VLong(o.request_id)>>,
                       <<"stream_unit", Val(su)>>,
                       <<"values", VArray([i \in 1..Len(o.values) |->
                                             payload_to_avro(o.values[i])])>> >>)))))

\* ---- StreamTracksRequest / StreamTracksResponse

StreamTracksRequest_load(m) ==
    IF m.schema # STREAM_TRACKS_REQUEST_SCHEMA THEN Ret(None)
    ELSE IF m.object.k # "Record" THEN Ret(None)
    ELSE IF Kinds(m.object.v) # <<"Long", "String", "Bytes">> THEN Ret(None)
    ELSE LET sn == fill_byte_array(EmptyStreamName, Field(m.object, 3).v)
         IN  IF sn.panic THEN Panic
             ELSE Ret(Some([cls |-> "StreamTracksRequest",
                            request_id |-> Field(m.object, 1).v,
                            topic |-> Field(m.object, 2).v,
                            stream_name |-> Val(sn)]))

StreamTracksRequest_save(dir, o) ==
    LET rec == get_record(dir, STREAM_TRACKS_REQUEST_SCHEMA)
    IN  IF rec.panic THEN Panic
        ELSE Ret(Some(ProtocolMessage(STREAM_TRACKS_REQUEST_SCHEMA,
                VRecord(PutAll(Val(rec),
                    << <<"request_id", VLong(o.request_id)>>,
                       <<"topic", VString(o.topic)>>,
                       <<"stream_name", VBytes(o.stream_name)>> >>)))))

\* the closure of tracks.iter().map(..): Option<TrackInfo>, or a panic of
\* fill_byte_array
TrackInfoOfValue(t) ==
    IF t.k # "Record" THEN Ret(None)
    ELSE IF Kinds(t.v) # <<"Bytes", "Enum">> THEN Ret(None)
    ELSE LET tn == fill_byte_array(get_empty_track_name, Field(t, 1).v)
         IN  IF tn.panic THEN Panic
             ELSE Ret(Some([track_name |-> Val(tn),
                            track_type |->
                                track_type_literal_to_track_type(Field(t, 2).v[2])]))

StreamTracksResponse_load(m) ==
    IF m.schema # STREAM_TRACKS_RESPONSE_SCHEMA THEN Ret(None)
    ELSE IF m.object.k # "Record" THEN Ret(None)
    ELSE IF Kinds(m.object.v) # <<"Long", "Bytes", "Array">> THEN Ret(None)
    ELSE LET sn == fill_byte_array(EmptyStreamName, Field(m.object, 2).v)
             tracks == Field(m.object, 3).v
             track_records == [i \in 1..Len(tracks) |-> TrackInfoOfValue(tracks[i])]
         IN  IF sn.panic THEN Panic
             ELSE IF \E i \in 1..Len(tracks) : track_records[i].panic THEN Panic
             ELSE LET valid_track_records ==
                          SelectSeq([i \in 1..Len(tracks) |-> Val(track_records[i])],
                                    IsSome)
                  IN  IF Len(valid_track_records) < Len(track_records) THEN Ret(None)
                      ELSE Ret(Some([cls |-> "StreamTracksResponse",
                                     request_id |-> Field(m.object, 1).v,
                                     stream_name |-> Val(sn),
                                     tracks |-> [i \in 1..Len(valid_track_records) |->
                                                   Unwrap(valid_track_records[i])]]))

\* |track_info| { r = mb.get_record(TRACK_INFO_SCHEMA); r.put("name", ..);
\*                r.put("type", get_track_type_enum(..)); r.into() }
TrackInfoToValue(dir, track_info) ==
    LET r == get_record(dir, TRACK_INFO_SCHEMA)
        tt == get_track_type_enum(track_info.track_type)
    IN  IF r.panic \/ tt.panic THEN Panic
        ELSE Ret(VRecord(PutAll(Val(r),
                 << <<"name", VBytes(track_info.track_name)>>,
                    <<"type", Val(tt)>> >>)))

StreamTracksResponse_save(dir, o) ==
    LET rec == get_record(dir, STREAM_TRACKS_RESPONSE_SCHEMA)
        tracks == [i \in 1..Len(o.tracks) |-> TrackInfoToValue(dir, o.tracks[i])]
    IN  IF rec.panic \/ \E i \in 1..Len(o.tracks) : tracks[i].panic THEN Panic
        ELSE Ret(Some(ProtocolMessage(STREAM_TRACKS_RESPONSE_SCHEMA,
                VRecord(PutAll(Val(rec),
                    << <<"request_id", VLong(o.request_id)>>,
                       <<"stream_name", VBytes(o.stream_name)>>,
                       <<"tracks", VArray([i \in 1..Len(o.tracks) |->
                                             Val(tracks[i])])>> >>)))))

\* ---- StreamTrackUnitsRequest / StreamTrackUnitsResponse
\* (neither load looks at message.schema)

\* a load whose slice pattern ends in a rest pattern: [(_, Long), (_, String),
\* (_, Record), (_, Long), ..]
StreamTrackUnitsRequest_load_prefix(m) ==
    IF m.object.k # "Record" THEN Ret(None)
    ELSE IF Len(m.object.v) < 4 THEN Ret(None)
    ELSE IF SubSeq(Kinds(m.object.v), 1, 4) # <<"Long", "String", "Record", "Long">>
         THEN Ret(None)
    ELSE IF Kinds(Field(m.object, 3).v) # UnitPattern THEN Ret(None)
    ELSE LET u == UnitOfRecord(Field(m.object, 3))
         IN  IF u.panic THEN Panic
             ELSE Ret(Some([cls |-> "StreamTrackUnitsRequest",
                            request_id |-> Field(m.object, 1).v,
                            topic |-> Field(m.object, 2).v,
                            stream_unit |-> Val(u),
                            from_ms |-> I64AsU128(Field(m.object, 4).v),
                            to_ms |-> I64AsU128(Field(m.object, 4).v)]))

StreamTrackUnitsRequest_load(m) ==
    IF m.object.k # "Record" THEN Ret(None)
    ELSE IF Kinds(m.object.v) # <<"Long", "String", "Record", "Long", "Long">>
         THEN Ret(None)
    ELSE IF Kinds(Field(m.object, 3).v) # UnitPattern THEN Ret(None)
    ELSE LET u == UnitOfRecord(Field(m.object, 3))
         IN  IF u.panic THEN Panic
             ELSE Ret(Some([cls |-> "StreamTrackUnitsRequest",
                            request_id |-> Field(m.object, 1).v,
                            topic |-> Field(m.object, 2).v,
                            stream_unit |-> Val(u),
                            from_ms |-> I64AsU128(Field(m.object, 4).v),
                            to_ms |-> I64AsU128(Field(m.object, 5).v)]))

StreamTrackUnitsRequest_save(dir, o) ==
    LET rec == get_record(dir, STREAM_TRACK_UNITS_REQUEST_SCHEMA)
        su == to_avro_record(o.stream_unit)
        from_ms == I64TryFromU128(o.from_ms)
        to_ms == I64TryFromU128(o.to_ms)
    IN  IF rec.panic \/ su.panic \/ ~IsSome(from_ms) \/ ~IsSome(to_ms) THEN Panic
        ELSE Ret(Some(ProtocolMessage(STREAM_TRACK_UNITS_REQUEST_SCHEMA,
                VRecord(PutAll(Val(rec),
                    << <<"request_id", VLong(o.request_id)>>,
                       <<"topic", VString(o.topic)>>,
                       <<"stream_unit", Val(su)>>,
                       <<"from_ms", VLong(Unwrap(from_ms))>>,
                       <<"to_ms", VLong(Unwrap(to_ms))>> >>)))))

StreamTrackUnitsResponse_load(m) ==
    IF m.object.k # "Record" THEN Ret(None)
    ELSE IF Kinds(m.object.v) # <<"Long", "Record", "Long", "Long", "Array">>
         THEN Ret(None)
    ELSE IF Kinds(Field(m.object, 2).v) # UnitPattern THEN Ret(None)
    ELSE LET units == Field(m.object, 5).v
             units_parsed == SelectSeq(units, LAMBDA x : x.k = "Long")
             u == UnitOfRecord(Field(m.object, 2))
         IN  IF Len(units_parsed) < Len(units) THEN Ret(None)
             ELSE IF u.panic THEN Panic
             ELSE Ret(Some([cls |-> "StreamTrackUnitsResponse",
                            request_id |-> Field(m.object, 1).v,
                            stream_unit |-> Val(u),
                            from_ms |-> I64AsU128(Field(m.object, 3).v),
                            to_ms |-> I64AsU128(Field(m.object, 4).v),
                            units |-> [i \in 1..Len(units_parsed) |->
                                         units_parsed[i].v]]))

StreamTrackUnitsResponse_save(dir, o) ==
    LET rec == get_record(dir, STREAM_TRACK_UNITS_RESPONSE_SCHEMA)
        su == to_avro_record(o.stream_unit)
        from_ms == I64TryFromU128(o.from_ms)
        to_ms == I64TryFromU128(o.to_ms)
    IN  IF rec.panic \/ su.panic \/ ~IsSome(from_ms) \/ ~IsSome(to_ms) THEN Panic
        ELSE Ret(Some(ProtocolMessage(STREAM_TRACK_UNITS_RESPONSE_SCHEMA,
                VRecord(PutAll(Val(rec),
                    << <<"request_id", VLong(o.request_id)>>,
                       <<"stream_unit", Val(su)>>,
                       <<"from_ms", VLong(Unwrap(from_ms))>>,
                       <<"to_ms", VLong(Unwrap(to_ms))>>,
                       <<"units", VArray([i \in 1..Len(o.units) |->
                                            VLong(o.units[i])])>> >>)))))

\* ---- KeepAliveMessage

KeepAliveMessage_load(m) ==
    IF m.schema # KEEPALIVE_MESSAGE_SCHEMA THEN Ret(None)
    ELSE IF m.object.k # "Record" THEN Ret(None)
    ELSE IF Kinds(m.object.v) # <<"String">> THEN Ret(None)
    ELSE Ret(Some([cls |-> "KeepAliveMessage",
                   module_id |-> Field(m.object, 1).v]))

KeepAliveMessage_save(dir, o) ==
    LET rec == get_record(dir, KEEPALIVE_MESSAGE_SCHEMA)
    IN  IF rec.panic THEN Panic
        ELSE Ret(Some(ProtocolMessage(KEEPALIVE_MESSAGE_SCHEMA,
                VRecord(PutAll(Val(rec),
                    << <<"module_id", VString(o.module_id)>> >>)))))

----------------------------------------------------------------------------
(* The registry: the message types, and the chains of types Builder::save  *)
(* and Builder::load try, in order.                                        *)

\* the types that implement FromProtocolMessage and ToProtocolMessage
RegisteredTypes ==
    << "UnitElementMessage", "NotifyMessage", "PingRequestResponse",
       "ServicesFFProbeRequest", "ServicesFFProbeResponse",
       "StreamTrackUnitElementsRequest", "StreamTrackUnitElementsResponse",
       "StreamTracksRequest", "StreamTracksResponse",
       "StreamTrackUnitsRequest", "StreamTrackUnitsResponse",
       "KeepAliveMessage" >>

\* Builder::save: try_to::<UnitElementMessage>(self, obj)
\*     .or_else(|| try_to::<NotifyMessage>(self, obj)) ...
SaveTypes ==
    << "UnitElementMessage", "NotifyMessage", "PingRequestResponse",
       "ServicesFFProbeRequest", "ServicesFFProbeResponse",
       "StreamTrackUnitElementsRequest", "StreamTrackUnitElementsResponse",
       "StreamTracksRequest", "StreamTracksResponse",
       "StreamTrackUnitsRequest", "StreamTrackUnitsResponse",
       "KeepAliveMessage" >>

\* Builder::load: try_from::<UnitElementMessage>(&obj)
\*     .or_else(|| try_from::<NotifyMessage>(&obj)) ...
LoadTypes ==
    << "UnitElementMessage", "NotifyMessage", "PingRequestResponse",
       "ServicesFFProbeRequest", "ServicesFFProbeResponse",
       "StreamTrackUnitElementsRequest", "StreamTrackUnitElementsResponse",
       "StreamTracksRequest", "StreamTracksResponse",
       "StreamTrackUnitsRequest", "StreamTrackUnitsResponse",
       "KeepAliveMessage" >>

\* T::load(message)
Load(T, m) ==
    CASE T = "UnitElementMessage" -> UnitElementMessage_load(m)
      [] T = "NotifyMessage" -> NotifyMessage_load(m)
      [] T = "PingRequestResponse" -> PingRequestResponse_load(m)
      [] T = "ServicesFFProbeRequest" -> ServicesFFProbeRequest_load(m)
      [] T = "ServicesFFProbeResponse" -> ServicesFFProbeResponse_load(m)
      [] T = "StreamTrackUnitElementsRequest" -> StreamTrackUnitElementsRequest_load(m)
      [] T = "StreamTrackUnitElementsResponse" -> StreamTrackUnitElementsResponse_load(m)
      [] T = "StreamTracksRequest" -> StreamTracksRequest_load(m)
      [] T = "StreamTracksResponse" -> StreamTracksResponse_load(m)
      [] T = "StreamTrackUnitsRequest" -> StreamTrackUnitsRequest_load(m)
      [] T = "StreamTrackUnitsResponse" -> StreamTrackUnitsResponse_load(m)
      [] T = "KeepAliveMessage" -> KeepAliveMessage_load(m)

\* o.save(mb), o an instance of T
Save(dir, o) ==
    CASE o.cls = "UnitElementMessage" -> UnitElementMessage_save(dir, o)
      [] o.cls = "NotifyMessage" -> NotifyMessage_save(dir, o)
      [] o.cls = "PingRequestResponse" -> PingRequestResponse_save(dir, o)
      [] o.cls = "ServicesFFProbeRequest" -> ServicesFFProbeRequest_save(dir, o)
      [] o.cls = "ServicesFFProbeResponse" -> ServicesFFProbeResponse_save(dir, o)
      [] o.cls = "StreamTrackUnitElementsRequest" ->
            StreamTrackUnitElementsRequest_save(dir, o)
      [] o.cls = "StreamTrackUnitElementsResponse" ->
            StreamTrackUnitElementsResponse_save(dir, o)
      [] o.cls = "StreamTracksRequest" -> StreamTracksRequest_save(dir, o)
      [] o.cls = "StreamTracksResponse" -> StreamTracksResponse_save(dir, o)
      [] o.cls = "StreamTrackUnitsRequest" -> StreamTrackUnitsRequest_save(dir, o)
      [] o.cls = "StreamTrackUnitsResponse" -> StreamTrackUnitsResponse_save(dir, o)
      [] o.cls = "KeepAliveMessage" -> KeepAliveMessage_save(dir, o)

\* the schema name constant of T
SchemaOf(T) ==
    CASE T = "UnitElementMessage" -> UNIT_ELEMENT_MESSAGE_SCHEMA
      [] T = "NotifyMessage" -> NOTIFY_MESSAGE_SCHEMA
      [] T = "PingRequestResponse" -> PING_REQUEST_RESPONSE_SCHEMA
      [] T = "ServicesFFProbeRequest" -> SERVICES_FFPROBE_REQUEST_SCHEMA
      [] T = "ServicesFFProbeResponse" -> SERVICES_FFPROBE_RESPONSE_SCHEMA
      [] T = "StreamTrackUnitElementsRequest" -> STREAM_TRACK_UNIT_ELEMENTS_REQUEST_SCHEMA
      [] T = "StreamTrackUnitElementsResponse" -> STREAM_TRACK_UNIT_ELEMENTS_RESPONSE_SCHEMA
      [] T = "StreamTracksRequest" -> STREAM_TRACKS_REQUEST_SCHEMA
      [] T = "StreamTracksResponse" -> STREAM_TRACKS_RESPONSE_SCHEMA
      [] T = "StreamTrackUnitsRequest" -> STREAM_TRACK_UNITS_REQUEST_SCHEMA
      [] T = "StreamTrackUnitsResponse" -> STREAM_TRACK_UNITS_RESPONSE_SCHEMA
      [] T = "KeepAliveMessage" -> KEEPALIVE_MESSAGE_SCHEMA

----------------------------------------------------------------------------
(* The envelope layer: src/avro.rs, BuilderImpl and Builder. *)

\* a packing call that panicked, and one that returned one of outs
PackPanic == [panic |-> TRUE, outs |-> {}]
Packed(outs) == IF outs = {} THEN PackPanic ELSE [panic |-> FALSE, outs |-> outs]

\* the envelope record around each encoding of the payload, encoded;
\* to_avro_datum(..).unwrap() panics when inners is empty
PackInner(dir, envelope, schema_name, inners) ==
    IF inners = {} THEN PackPanic
    ELSE Packed(UNION { ToAvroDatum(dir[MESSAGE_ENVELOPE_SCHEMA],
                            VRecord(PutAll(envelope,
                                << <<"schema", VBytes(Utf8(schema_name))>>,
                                   <<"payload", VBytes(inner)>> >>))) :
                        inner \in inners })

\* a packing that wraps an empty payload when the catalog lacks the schema
pack_message_into_envelope_or_empty(dir, schema_name, payload) ==
    IF get_record(dir, MESSAGE_ENVELOPE_SCHEMA).panic THEN PackPanic
    ELSE IF ~IsSome(get_schema(dir, schema_name))
    THEN PackInner(dir, Val(get_record(dir, MESSAGE_ENVELOPE_SCHEMA)), schema_name,
                   { << >> })
    ELSE PackInner(dir, Val(get_record(dir, MESSAGE_ENVELOPE_SCHEMA)), schema_name,
                   ToAvroDatum(Unwrap(get_schema(dir, schema_name)), payload))

\* BuilderImpl::pack_message_into_envelope: panics when a schema is missing
\* or a value fails validation; otherwise returns one of the byte strings
\* of outs, one per order in which the maps of the payload are iterated
pack_message_into_envelope(dir, schema_name, payload) ==
    IF get_record(dir, MESSAGE_ENVELOPE_SCHEMA).panic
       \/ ~IsSome(get_schema(dir, schema_name))
    THEN PackPanic
    ELSE PackInner(dir, Val(get_record(dir, MESSAGE_ENVELOPE_SCHEMA)), schema_name,
                   ToAvroDatum(Unwrap(get_schema(dir, schema_name)), payload))

\* format!("No valid schema found in schema catalog for the schema ({}) in
\* serialized record", schema_name)
NoValidSchemaFound(schema_name) ==
    "No valid schema found in schema catalog for the schema (" \o schema_name
        \o ") in serialized record"

\* a match that reports a payload that does not decode with the text of the
\* outer failure
MatchInnerAsOuter(schema_name, inner) ==
    IF IsSome(inner) THEN Ok(<<schema_name, Unwrap(inner)>>)
    ELSE Err("Failed to deserialize the outer message")

\* match inner { Ok(inner) => Ok((schema_name, inner)), _ => Err(..) }
MatchInner(schema_name, inner) ==
    IF IsSome(inner) THEN Ok(<<schema_name, Unwrap(inner)>>)
    ELSE Err("Failed to parse inner AVRO serialized record")

\* a lookup that fell back to the envelope schema for a name it lacks
MatchInnerSchemaOrEnvelope(dir, schema_name, payload) ==
    MatchInner(schema_name,
               FromAvroDatum(IF IsSome(get_schema(dir, schema_name))
                             THEN Unwrap(get_schema(dir, schema_name))
                             ELSE dir[MESSAGE_ENVELOPE_SCHEMA], payload))

\* match inner_schema { Some(inner_schema) => .., _ => Err(..) }
MatchInnerSchema(dir, schema_name, payload) ==
    IF ~IsSome(get_schema(dir, schema_name))
    THEN Err(NoValidSchemaFound(schema_name))
    ELSE MatchInner(schema_name,
                    FromAvroDatum(Unwrap(get_schema(dir, schema_name)), payload))

\* match fields.as_slice() { [(s, Bytes(schema)), (p, Bytes(payload))]
\*     if s == "schema" && p == "payload" => match str::from_utf8(schema) ..
MatchFields(dir, fields) ==
    IF ~(/\ Len(fields) = 2
         /\ fields[1][2].k = "Bytes" /\ fields[2][2].k = "Bytes"
         /\ fields[1][1] = "schema" /\ fields[2][1] = "payload")
    THEN Err("No outer AVRO record (MessageEnvelope) matched")
    ELSE IF ~IsUtf8(fields[1][2].v)
    THEN Err("Failed to parse schema name, not a valid UTF-8")
    ELSE MatchInnerSchema(dir, FromUtf8(fields[1][2].v), fields[2][2].v)

\* a match that let an undecodable buffer through as an empty message
MatchEnvelopeOrEmpty(dir, envelope) ==
    IF ~IsSome(envelope) THEN Ok(<<"", VNull>>)
    ELSE MatchFields(dir, Unwrap(envelope).v)

\* match envelope { Ok(Value::Record(fields)) => .., Ok(_) => Err(..),
\*                  _ => Err(..) }
MatchEnvelope(dir, envelope) ==
    IF ~IsSome(envelope) THEN Err("Failed to deserialize the outer message")
    ELSE IF Unwrap(envelope).k # "Record"
    THEN Err("Failed to parse/match outer AVRO Record")
    ELSE MatchFields(dir, Unwrap(envelope).v)

\* BuilderImpl::read_protocol_message: Result<(String, Value), String>, or a
\* panic of get_schema(MESSAGE_ENVELOPE_SCHEMA).unwrap()
read_protocol_message(dir, from) ==
    IF ~IsSome(get_schema(dir, MESSAGE_ENVELOPE_SCHEMA)) THEN Panic
    ELSE Ret(MatchEnvelope(dir,
                FromAvroDatum(Unwrap(get_schema(dir, MESSAGE_ENVELOPE_SCHEMA)), from)))

\* match read_protocol_message(..) { Ok((schema, object)) =>
\*     Some(ProtocolMessage { schema, object }), Err(m) => None }
MatchResult(r) ==
    IF r.panic THEN Panic
    ELSE IF Val(r).ok
    THEN Ret(Some(ProtocolMessage(Unwrap(Val(r).v)[1], Unwrap(Val(r).v)[2])))
    ELSE Ret(None)

\* Builder::load_to_avro: Option<ProtocolMessage>
load_to_avro(dir, o) == MatchResult(read_protocol_message(dir, o))

\* Builder::save_from_avro
save_from_avro(dir, message) ==
    pack_message_into_envelope(dir, message.schema, message.object)

\* protocol_message_res.map(|m| mb.save_from_avro(m))
MapSaveFromAvro(dir, m) ==
    IF m.panic THEN PackPanic
    ELSE IF ~IsSome(Val(m)) THEN [panic |-> FALSE, outs |-> {None}]
    ELSE save_from_avro(dir, Unwrap(Val(m)))

\* Option<Vec<u8>> of every byte string a packing call can return
SomeOf(packed) ==
    IF packed.panic THEN PackPanic
    ELSE [panic |-> FALSE, outs |-> { Some(b) : b \in packed.outs }]

\* a chain of try_to::<T> that leaves KeepAliveMessage out
save_without_keepalive(dir, o) ==
    IF o.cls = "KeepAliveMessage" \/ \A i \in 1..Len(SaveTypes) : o.cls # SaveTypes[i]
    THEN [panic |-> FALSE, outs |-> {None}]
    ELSE SomeOf(MapSaveFromAvro(dir, Save(dir, o)))

\* Builder::save: the first try_to::<T> whose T the object is an instance of
save(dir, o) ==
    IF \A i \in 1..Len(SaveTypes) : o.cls # SaveTypes[i]
    THEN [panic |-> FALSE, outs |-> {None}]
    ELSE SomeOf(MapSaveFromAvro(dir, Save(dir, o)))

\* try_from::<T1>(&obj).or_else(|| try_from::<T2>(&obj))... from type i on
RECURSIVE TryFrom(_, _)
\* a chain that goes on to the next type after a match
OrElseFallingThrough(r, m, i) ==
    IF r.panic THEN Panic
    ELSE TryFrom(m, i)
OrElse(r, m, i) ==
    IF r.panic THEN Panic
    ELSE IF IsSome(Val(r)) THEN r
    ELSE TryFrom(m, i)
TryFrom(m, i) ==
    IF i > Len(LoadTypes) THEN Ret(None)
    ELSE OrElse(Load(LoadTypes[i], m), m, i + 1)

\* match self.load_to_avro(message) { None => None, Some(obj) => try_from.. }
MatchLoaded(m) ==
    IF m.panic THEN Panic
    ELSE IF ~IsSome(Val(m)) THEN Ret(None)
    ELSE TryFrom(Unwrap(Val(m)), 1)

\* Builder::load
load(dir, message) == MatchLoaded(load_to_avro(dir, message))

----------------------------------------------------------------------------
(* The inputs the caller chooses from. *)

\* a [u8; 16] holding the bytes s, zero-filled
Name16(s) == [i \in 1..16 |-> IF i <= Len(s) THEN s[i] ELSE 0]

\* an identity byte string of n non-zero bytes
NameOfLen(n) == [i \in 1..n |-> i]

\* byte strings of every length up to MaxNameLen
Names == { NameOfLen(n) : n \in 0..MaxNameLen }

\* Unit { stream_name, track_name, track_type, unit }
VideoUnit ==
    [stream_name |-> Name16(<<1, 2>>), track_name |-> Name16(<<3>>),
     track_type |-> "Video", unit |-> 3]
MetaUnit ==
    [stream_name |-> Name16(NameOfLen(16)), track_name |-> Name16(<< >>),
     track_type |-> "Meta", unit |-> -70]
NotImplementedUnit ==
    [stream_name |-> Name16(<<1, 2>>), track_name |-> Name16(<<3>>),
     track_type |-> "NotImplemented", unit |-> 3]

\* the files of the manifest, all present, each declaring its schema
ManifestFiles == [i \in 1..Len(ParsedSchemas) |-> Some(ParsedSchemas[i])]

\* files with the texts of the first three replaced by a, b and c
FirstThree(a, b, c) ==
    [i \in 1..Len(ParsedSchemas) |->
        CASE i = 1 -> Some(a) [] i = 2 -> Some(b) [] i = 3 -> Some(c)
          [] OTHER -> ManifestFiles[i]]

\* The path prefixes the caller builds a catalog from: the manifest's own
\* files; files of which three declare a record and an enum without
\* namespace and a fixed; files of which three declare records of the local
\* name X, in two orders; the last file missing; the first file missing and
\* the third no schema; the ninth file no schema; no file at all.
SchemaDirs ==
    << ManifestFiles,
       FirstThree(SRecord(None, "X", << <<"a", SLong>> >>),
                  SFixed(Some("insight.transport"), "F", 16),
                  SEnum(None, "E", <<"A", "B">>)),
       FirstThree(SRecord(None, "X", << <<"a", SLong>> >>),
                  SRecord(Some("insight.transport"), "X", << <<"b", SString>> >>),
                  SRecord(Some("insight.storage"), "X", << <<"c", SBytes>> >>)),
       FirstThree(SRecord(Some("insight.transport"), "X", << <<"b", SString>> >>),
                  SRecord(Some("insight.storage"), "X", << <<"c", SBytes>> >>),
                  SRecord(None, "X", << <<"a", SLong>> >>)),
       [i \in 1..Len(ParsedSchemas) |->
           IF i = Len(ParsedSchemas) THEN None ELSE ManifestFiles[i]],
       [i \in 1..Len(ParsedSchemas) |->
           CASE i = 1 -> None [] i = 3 -> Some(Unparsable) [] OTHER -> ManifestFiles[i]],
       [i \in 1..Len(ParsedSchemas) |->
           IF i = 9 THEN Some(Unparsable) ELSE ManifestFiles[i]],
       [i \in 1..Len(ParsedSchemas) |-> None] >>

\* the names the caller looks up: the file names of the manifest, and names
\* of the other schemas with and without namespace, suffix and capitals
SchemaNames ==
    { schema_files[i][2] : i \in 1..Len(schema_files) }
        \cup { UNKNOWN_SCHEMA, "insight.transport.X.avsc", "insight.transport.x.avsc",
               "Insight.Transport.X.avsc", "insight.storage.X.avsc", "X.avsc", "X",
               "insight.transport.X", ".X.avsc", "insight.transport.E.avsc",
               "insight.transport.F.avsc" }

\* Python objects that are instances of no message type: a Unit and None
OtherObjects ==
    << [cls |-> "Unit", stream_unit |-> VideoUnit], [cls |-> "NoneType"] >>

\* a HashMap<String, String> of two entries
TwoAttributes == { <<"a", "b">>, <<"c", "d">> }

\* The typed messages the caller constructs: at least one of every
\* registered type, with every enum variant, maps of 0, 1 and 2 entries
\* and the unsigned values next to the signed range's end.
Instances ==
    << [cls |-> "UnitElementMessage", stream_unit |-> VideoUnit, element |-> 2,
        value |-> <<7, 0, 200>>, attributes |-> {}, last |-> TRUE],
       [cls |-> "UnitElementMessage", stream_unit |-> MetaUnit, element |-> -32768,
        value |-> << >>, attributes |-> TwoAttributes, last |-> FALSE],
       [cls |-> "UnitElementMessage", stream_unit |-> NotImplementedUnit,
        element |-> 2, value |-> <<7>>, attributes |-> {}, last |-> TRUE],
       [cls |-> "NotifyMessage", stream_unit |-> VideoUnit,
        saved_ms |-> Wide(0, 5), notify_type |-> <<"Ready", 3>>],
       [cls |-> "NotifyMessage", stream_unit |-> MetaUnit,
        saved_ms |-> Wide(64, -1), notify_type |-> <<"New">>],
       [cls |-> "NotifyMessage", stream_unit |-> VideoUnit,
        saved_ms |-> Wide(0, 5), notify_type |-> <<"NotImplemented">>],
       [cls |-> "NotifyMessage", stream_unit |-> MetaUnit,
        saved_ms |-> Wide(0, 0), notify_type |-> <<"Ready", -32768>>],
       [cls |-> "NotifyMessage", stream_unit |-> VideoUnit,
        saved_ms |-> Wide(64, -5),
        notify_type |-> <<"Ready", 32767>>],
       [cls |-> "NotifyMessage", stream_unit |-> VideoUnit,
        saved_ms |-> Wide(0, 70000), notify_type |-> <<"Ready", -1>>],
       [cls |-> "PingRequestResponse", request_id |-> 1, topic |-> "t",
        mtype |-> "Request"],
       [cls |-> "PingRequestResponse", request_id |-> -1, topic |-> "",
        mtype |-> "Response"],
       [cls |-> "ServicesFFProbeRequest", request_id |-> 1, topic |-> "t",
        url |-> "/v", attributes |-> TwoAttributes],
       [cls |-> "ServicesFFProbeResponse", request_id |-> 1,
        response_type |-> "Complete", time_spent |-> 300,
        streams |-> << { <<"a", "b">> }, {} >>],
       [cls |-> "ServicesFFProbeResponse", request_id |-> 1,
        response_type |-> "NotImplemented", time_spent |-> 0, streams |-> << >>],
       [cls |-> "StreamTrackUnitElementsRequest", request_id |-> 1, topic |-> "t",
        stream_unit |-> VideoUnit, max_element |-> 32767],
       [cls |-> "StreamTrackUnitElementsResponse", request_id |-> 1,
        stream_unit |-> VideoUnit,
        values |-> << [data |-> <<9>>, attributes |-> { <<"a", "b">> }] >>],
       [cls |-> "StreamTrackUnitElementsResponse", request_id |-> 2,
        stream_unit |-> MetaUnit,
        values |-> << [data |-> <<0, 1, 2>>, attributes |-> {}],
                      [data |-> <<1, 2, 3>>, attributes |-> {}] >>],
       [cls |-> "StreamTrackUnitElementsResponse", request_id |-> 3,
        stream_unit |-> VideoUnit,
        values |-> << [data |-> <<9>>, attributes |-> TwoAttributes],
                      [data |-> << >>, attributes |-> { <<"a", "">> }],
                      [data |-> <<9>>, attributes |-> TwoAttributes] >>],
       [cls |-> "StreamTrackUnitElementsResponse", request_id |-> 4,
        stream_unit |-> VideoUnit, values |-> << >>],
       [cls |-> "StreamTrackUnitElementsResponse", request_id |-> 5,
        stream_unit |-> NotImplementedUnit,
        values |-> << [data |-> <<9>>, attributes |-> {}] >>],
       [cls |-> "StreamTracksRequest", request_id |-> 1, topic |-> "t",
        stream_name |-> Name16(<<1, 2>>)],
       [cls |-> "StreamTracksResponse", request_id |-> 1,
        stream_name |-> Name16(<<1, 2>>),
        tracks |-> << [track_name |-> Name16(<<3>>), track_type |-> "Video"],
                      [track_name |-> Name16(<<4>>), track_type |-> "Meta"] >>],
       [cls |-> "StreamTracksResponse", request_id |-> 1,
        stream_name |-> Name16(<<1, 2>>),
        tracks |-> << [track_name |-> Name16(<<3>>),
                       track_type |-> "NotImplemented"] >>],
       [cls |-> "StreamTrackUnitsRequest", request_id |-> 1, topic |-> "t",
        stream_unit |-> VideoUnit, from_ms |-> Wide(0, 1), to_ms |-> Wide(0, 2)],
       [cls |-> "StreamTrackUnitsRequest", request_id |-> 1, topic |-> "t",
        stream_unit |-> VideoUnit, from_ms |-> Wide(0, 1), to_ms |-> Wide(63, 0)],
       [cls |-> "StreamTrackUnitsResponse", request_id |-> 1,
        stream_unit |-> MetaUnit, from_ms |-> Wide(0, 0), to_ms |-> Wide(0, 2),
        units |-> <<1, 2>>],
       [cls |-> "StreamTrackUnitsResponse", request_id |-> 1,
        stream_unit |-> VideoUnit, from_ms |-> Wide(63, 0), to_ms |-> Wide(128, -1),
        units |-> <<1>>],
       [cls |-> "KeepAliveMessage", module_id |-> "m"] >>

\* a Value::Record of the Unit shape
UnitValue(stream_name, track_name, index, literal) ==
    VRecord(<< <<"stream_name", VBytes(stream_name)>>,
               <<"track_name", VBytes(track_name)>>,
               <<"track_type", VEnum(index, literal)>>,
               <<"unit", VLong(3)>> >>)

\* The ProtocolMessage values a caller hands to load without decoding them
\* from bytes: schema names that do not go with the object, fields at other
\* positions, enum literals outside the tables, over-long identities,
\* fields of other kinds or counts, arrays with an element of another kind
\* and maps with a value that is no string; and notifications of every kind
\* with a last_element that the kind does not go with or that no i16 holds;
\* and an element and a max_element that no i16 holds.
ForgedMessages ==
    << ProtocolMessage(KEEPALIVE_MESSAGE_SCHEMA,
           VRecord(<< <<"module_id", VString("m")>> >>)),
       ProtocolMessage(PING_REQUEST_RESPONSE_SCHEMA,
           VRecord(<< <<"module_id", VString("m")>> >>)),
       ProtocolMessage(KEEPALIVE_MESSAGE_SCHEMA,
           VRecord(<< <<"request_id", VLong(1)>>, <<"topic", VString("t")>>,
                      <<"stream_unit", UnitValue(<<1>>, <<2>>, 0, "VIDEO")>>,
                      <<"from_ms", VLong(-1)>>, <<"to_ms", VLong(2)>> >>)),
       ProtocolMessage(UNKNOWN_SCHEMA,
           VRecord(<< <<"request_id", VLong(1)>>,
                      <<"stream_unit", UnitValue(<<1>>, <<2>>, 1, "META")>>,
                      <<"from_ms", VLong(1)>>, <<"to_ms", VLong(2)>>,
                      <<"units", VArray(<<VLong(5)>>)>> >>)),
       ProtocolMessage(SERVICES_FFPROBE_REQUEST_SCHEMA,
           VRecord(<< <<"request_id", VLong(1)>>, <<"url", VString("/v")>>,
                      <<"topic", VString("t")>>,
                      <<"attributes", VMap({})>> >>)),
       ProtocolMessage(SERVICES_FFPROBE_REQUEST_SCHEMA,
           VRecord(<< <<"request_id", VLong(1)>>, <<"topic", VString("t")>>,
                      <<"url", VString("/v")>>,
                      <<"attributes", VMap({ <<"a", VLong(1)>> })>> >>)),
       ProtocolMessage(UNIT_ELEMENT_MESSAGE_SCHEMA,
           VRecord(<< <<"stream_unit", UnitValue(<<1>>, <<2>>, 2, "AUDIO")>>,
                      <<"element", VLong(1)>>, <<"value", VBytes(<<7>>)>>,
                      <<"attributes", VMap({})>>, <<"last", VBoolean(TRUE)>> >>)),
       ProtocolMessage(NOTIFY_MESSAGE_SCHEMA,
           VRecord(<< <<"stream_unit", UnitValue(<<1>>, <<2>>, 0, "VIDEO")>>,
                      <<"last_element", VInt(4)>>, <<"saved_ms", VLong(5)>>,
                      <<"notify_type", VEnum(2, "DELETED")>> >>)),
       ProtocolMessage(NOTIFY_MESSAGE_SCHEMA,
           VRecord(<< <<"stream_unit", UnitValue(<<1>>, <<2>>, 0, "VIDEO")>>,
                      <<"last_element", VInt(7)>>, <<"saved_ms", VLong(-1)>>,
                      <<"notify_type", VEnum(0, "READY")>> >>)),
       ProtocolMessage(NOTIFY_MESSAGE_SCHEMA,
           VRecord(<< <<"stream_unit", UnitValue(<<1>>, <<2>>, 1, "META")>>,
                      <<"last_element", VInt(5)>>, <<"saved_ms", VLong(5)>>,
                      <<"notify_type", VEnum(1, "NEW")>> >>)),
       ProtocolMessage(NOTIFY_MESSAGE_SCHEMA,
           VRecord(<< <<"stream_unit", UnitValue(<<1>>, <<2>>, 0, "VIDEO")>>,
                      <<"last_element", VInt(40000)>>,
                      <<"saved_ms", VLong(-2)>>,
                      <<"notify_type", VEnum(0, "READY")>> >>)),
       ProtocolMessage(SERVICES_FFPROBE_RESPONSE_SCHEMA,
           VRecord(<< <<"request_id", VLong(1)>>,
                      <<"response_type", VEnum(3, "TIMEOUT")>>,
                      <<"time_spent", VLong(9)>>,
                      <<"streams", VArray(<< VMap({}) >>)>> >>)),
       ProtocolMessage(PING_REQUEST_RESPONSE_SCHEMA,
           VRecord(<< <<"request_id", VLong(1)>>, <<"topic", VString("t")>>,
                      <<"type", VEnum(2, "PONG")>> >>)),
       ProtocolMessage(STREAM_TRACKS_RESPONSE_SCHEMA,
           VRecord(<< <<"request_id", VLong(1)>>,
                      <<"stream_name", VBytes(<<1>>)>>,
                      <<"tracks", VArray(<< VRecord(<< <<"name", VBytes(<<3>>)>>,
                                                      <<"type", VEnum(2, "AUDIO")>> >>) >>)>> >>)),
       ProtocolMessage(STREAM_TRACKS_REQUEST_SCHEMA,
           VRecord(<< <<"request_id", VLong(1)>>, <<"topic", VString("t")>>,
                      <<"stream_name", VBytes(NameOfLen(17))>> >>)),
       ProtocolMessage(KEEPALIVE_MESSAGE_SCHEMA,
           VRecord(<< <<"module_id", VLong(1)>> >>)),
       ProtocolMessage(KEEPALIVE_MESSAGE_SCHEMA,
           VRecord(<< <<"module_id", VString("m")>>, <<"extra", VString("m")>> >>)),
       ProtocolMessage(PING_REQUEST_RESPONSE_SCHEMA,
           VRecord(<< <<"topic", VString("t")>>, <<"request_id", VLong(1)>>,
                      <<"type", VEnum(0, "REQUEST")>> >>)),
       ProtocolMessage(SERVICES_FFPROBE_RESPONSE_SCHEMA,
           VRecord(<< <<"request_id", VLong(1)>>,
                      <<"response_type", VEnum(0, "ACCEPTED")>>,
                      <<"time_spent", VLong(9)>>,
                      <<"streams", VArray(<< VLong(1) >>)>> >>)),
       ProtocolMessage(KEEPALIVE_MESSAGE_SCHEMA, VString("m")),
       ProtocolMessage(STREAM_TRACK_UNIT_ELEMENTS_REQUEST_SCHEMA,
           VRecord(<< <<"request_id", VLong(1)>>, <<"topic", VString("t")>>,
                      <<"stream_unit",
                        VRecord(<< <<"stream_name", VBytes(<<1>>)>>,
                                   <<"track_name", VBytes(<<2>>)>>,
                                   <<"unit", VLong(3)>> >>)>>,
                      <<"max_element", VLong(70000)>> >>)),
       ProtocolMessage(STREAM_TRACK_UNIT_ELEMENTS_RESPONSE_SCHEMA,
           VRecord(<< <<"request_id", VLong(1)>>,
                      <<"stream_unit", UnitValue(<<1>>, <<2>>, 0, "VIDEO")>>,
                      <<"values", VArray(<< VLong(1) >>)>> >>)),
       ProtocolMessage(UNIT_ELEMENT_MESSAGE_SCHEMA,
           VRecord(<< <<"stream_unit", UnitValue(NameOfLen(17), <<2>>, 2, "AUDIO")>>,
                      <<"element", VLong(1)>>, <<"value", VBytes(<<7>>)>>,
                      <<"attributes", VMap({})>>, <<"last", VBoolean(TRUE)>> >>)),
       ProtocolMessage(STREAM_TRACKS_RESPONSE_SCHEMA,
           VRecord(<< <<"request_id", VLong(1)>>,
                      <<"stream_name", VBytes(<<1>>)>>,
                      <<"tracks", VArray(<< VRecord(<< <<"name", VBytes(<<3>>)>>,
                                                      <<"type", VEnum(0, "VIDEO")>> >>),
                                            VLong(5) >>)>> >>)),
       ProtocolMessage(STREAM_TRACKS_RESPONSE_SCHEMA,
           VRecord(<< <<"request_id", VLong(1)>>,
                      <<"stream_name", VBytes(<<1>>)>>,
                      <<"tracks", VArray(<< VRecord(<< <<"name", VBytes(NameOfLen(17))>>,
                                                      <<"type", VEnum(0, "VIDEO")>> >>),
                                            VLong(5) >>)>> >>)),
       ProtocolMessage(STREAM_TRACK_UNITS_RESPONSE_SCHEMA,
           VRecord(<< <<"request_id", VLong(1)>>,
                      <<"stream_unit", UnitValue(<<1>>, <<2>>, 1, "META")>>,
                      <<"from_ms", VLong(1)>>, <<"to_ms", VLong(2)>>,
                      <<"units", VArray(<< VLong(5), VString("t"), VLong(6) >>)>> >>)),
       ProtocolMessage(STREAM_TRACK_UNIT_ELEMENTS_RESPONSE_SCHEMA,
           VRecord(<< <<"request_id", VLong(1)>>,
                      <<"stream_unit", UnitValue(<<1>>, <<2>>, 0, "VIDEO")>>,
                      <<"values",
                        VArray(<< VRecord(<< <<"data", VBytes(<<9>>)>>,
                                             <<"attributes", VMap({})>> >>),
                                  VRecord(<< <<"data", VBytes(<<9>>)>> >>) >>)>> >>)),
       ProtocolMessage(UNIT_ELEMENT_MESSAGE_SCHEMA,
           VRecord(<< <<"stream_unit", UnitValue(<<1>>, <<2>>, 0, "VIDEO")>>,
                      <<"element", VLong(1)>>, <<"value", VBytes(<<7>>)>>,
                      <<"attributes", VMap({ <<"a", VLong(1)>>, <<"c", VString("d")>> })>>,
                      <<"last", VBoolean(TRUE)>> >>)),
       ProtocolMessage(STREAM_TRACK_UNIT_ELEMENTS_RESPONSE_SCHEMA,
           VRecord(<< <<"request_id", VLong(1)>>,
                      <<"stream_unit", UnitValue(<<1>>, <<2>>, 0, "VIDEO")>>,
                      <<"values",
                        VArray(<< VRecord(<< <<"data", VBytes(<<9>>)>>,
                                             <<"attributes",
                                               VMap({ <<"a", VBoolean(TRUE)>> })>> >>) >>)>> >>)),
       ProtocolMessage(SERVICES_FFPROBE_RESPONSE_SCHEMA,
           VRecord(<< <<"request_id", VLong(1)>>,
                      <<"response_type", VEnum(1, "COMPLETE")>>,
                      <<"time_spent", VLong(9)>>,
                      <<"streams", VArray(<< VMap({ <<"a", VNull>> }) >>)>> >>)),
       ProtocolMessage(UNIT_ELEMENT_MESSAGE_SCHEMA,
           VRecord(<< <<"stream_unit", UnitValue(<<1>>, <<2>>, 0, "VIDEO")>>,
                      <<"element", VLong(-32769)>>, <<"value", VBytes(<<7>>)>>,
                      <<"attributes", VMap({})>>, <<"last", VBoolean(TRUE)>> >>)),
       ProtocolMessage(STREAM_TRACK_UNIT_ELEMENTS_REQUEST_SCHEMA,
           VRecord(<< <<"request_id", VLong(1)>>, <<"topic", VString("t")>>,
                      <<"stream_unit", UnitValue(<<1>>, <<2>>, 0, "VIDEO")>>,
                      <<"max_element", VLong(65536)>> >>)) >>

\* an envelope as it travels: two length-prefixed byte strings
Envelope(schema, payload) == EncodeBytes(schema) \o EncodeBytes(payload)

\* The byte buffers a peer sends: too short, empty, a schema name that is no
\* UTF-8, a schema name outside the catalog (with a payload that is garbage
\* and one that is not), catalogued names with payloads that do not decode,
\* bytes after the envelope, a catalogued schema that is no record, an
\* identity of 17 bytes, and catalogued schemas that are no message type's.
Buffers ==
    << <<1, 2, 3>>,
       << >>,
       <<0>>,
       <<0, 0>>,
       Envelope(<<255>>, << >>),
       Envelope(Utf8(UNKNOWN_SCHEMA), <<1, 2, 3>>),
       Envelope(Utf8(UNKNOWN_SCHEMA), EncodeBytes(Utf8("m"))),
       Envelope(Utf8(KEEPALIVE_MESSAGE_SCHEMA), << >>),
       Envelope(Utf8(KEEPALIVE_MESSAGE_SCHEMA), EncodeBytes(Utf8("m"))) \o <<9, 9>>,
       Envelope(Utf8(PING_REQUEST_RESPONSE_SCHEMA), <<2, 0, 4>>),
       Envelope(Utf8(TRACK_TYPE_SCHEMA), <<0>>),
       Envelope(Utf8(STREAM_TRACKS_REQUEST_SCHEMA),
                EncodeLong(1) \o EncodeBytes(Utf8("t")) \o EncodeBytes(NameOfLen(17))),
       Envelope(Utf8(UNIT_SCHEMA),
                EncodeBytes(<<1>>) \o EncodeBytes(<<2>>) \o EncodeLong(0)
                    \o EncodeLong(3)),
       Envelope(Utf8(MESSAGE_ENVELOPE_SCHEMA), Envelope(<<1>>, <<2>>)),
       Envelope(Utf8(TRACK_INFO_SCHEMA), EncodeBytes(<<3>>) \o EncodeLong(1)) >>

----------------------------------------------------------------------------
(* The caller's session.  One Builder, built from the manifest; calls made  *)
(* one at a time.  An entry call (constructing a message, receiving bytes,  *)
(* building a ProtocolMessage by hand, calling a primitive) starts a new    *)
(* exchange and drops the values of the previous one.  Within an exchange   *)
(* the caller hands each value on to the next call and keeps no copy.  A    *)
(* panic aborts the process: nothing runs after it.                         *)

\* the result record of a call: its name, its argument(s), its outcome
Call(op, arg, out) == [op |-> op, arg |-> arg, out |-> out]

\* the callers of the shared Builder, and a caller that is in no call
Callers == 1..NumCallers
Idle == [at |-> "idle"]

Init ==
    /\ directory = BuilderImplNew
    /\ calls = [c \in Callers |-> Idle]
    /\ pc = "running"
    /\ obj = None
    /\ pmsg = None
    /\ buf = None
    /\ res = Call("Builder::new", << >>, Ret(<< >>))
    /\ first = None
    /\ origin = None
    /\ packs = 0

\* T::new(..): the caller constructs the typed message t
Construct(t) ==
    /\ pc = "running"
    /\ obj' = Some(t)
    /\ pmsg' = None
    /\ buf' = None
    /\ res' = Call("new", << >>, Ret(t))
    /\ first' = None
    /\ origin' = Some(t)
    /\ packs' = 0
    /\ UNCHANGED <<calls, directory, pc>>

\* the caller holds a Python object o that is no message
PyAny(o) ==
    /\ pc = "running"
    /\ obj' = Some(o)
    /\ pmsg' = None
    /\ buf' = None
    /\ res' = Call("object", << >>, Ret(o))
    /\ first' = None
    /\ origin' = None
    /\ packs' = 0
    /\ UNCHANGED <<calls, directory, pc>>

\* BuilderImpl::new(path_prefix): the caller builds another catalog
BuilderImplNewAt(path_prefix) ==
    /\ pc = "running"
    /\ obj' = None
    /\ pmsg' = None
    /\ buf' = None
    /\ \E r \in { BuilderImpl_new(path_prefix) } :
           /\ res' = Call("BuilderImpl::new", path_prefix, r)
           /\ pc' = IF r.panic THEN "aborted" ELSE pc
    /\ first' = None
    /\ origin' = None
    /\ packs' = 0
    /\ UNCHANGED <<calls, directory>>

\* BuilderImpl::get_schema(schema_name) on the catalog just built
GetSchema(schema_name) ==
    /\ pc = "running"
    /\ res.op = "BuilderImpl::new"
    /\ res' = Call("get_schema", <<res.arg, Val(res.out), schema_name>>,
                   Ret(get_schema(Val(res.out), schema_name)))
    /\ UNCHANGED <<calls, directory, pc, obj, pmsg, buf, first, origin, packs>>

\* bytes arrive from a peer
Receive(b) ==
    /\ pc = "running"
    /\ obj' = None
    /\ pmsg' = None
    /\ buf' = Some(b)
    /\ res' = Call("receive", << >>, Ret(b))
    /\ first' = None
    /\ origin' = None
    /\ packs' = 0
    /\ UNCHANGED <<calls, directory, pc>>

\* ProtocolMessage { schema, object } built by the caller
Forge(m) ==
    /\ pc = "running"
    /\ obj' = None
    /\ pmsg' = Some(m)
    /\ buf' = None
    /\ res' = Call("ProtocolMessage", << >>, Ret(m))
    /\ first' = None
    /\ origin' = None
    /\ packs' = 0
    /\ UNCHANGED <<calls, directory, pc>>

\* ToProtocolMessage::save(&self, mb) on the message held
SaveMessage ==
    /\ pc = "running"
    /\ IsSome(obj)
    /\ \E i \in 1..Len(RegisteredTypes) : Unwrap(obj).cls = RegisteredTypes[i]
    /\ \E r \in { Save(directory, Unwrap(obj)) } :
           /\ res' = Call("save", Unwrap(obj), r)
           /\ pc' = IF r.panic THEN "aborted" ELSE pc
           /\ pmsg' = IF r.panic THEN pmsg ELSE Val(r)
    /\ obj' = None
    /\ UNCHANGED <<calls, directory, buf, first, origin, packs>>

\* Builder::save_from_avro(message): the message is moved into the call
SaveFromAvro ==
    /\ pc = "running"
    /\ IsSome(pmsg)
    /\ packs < MaxPacks
    /\ \E r \in { save_from_avro(directory, Unwrap(pmsg)) } :
           IF r.panic
           THEN /\ res' = Call("save_from_avro", Unwrap(pmsg), Panic)
                /\ pc' = "aborted"
                /\ UNCHANGED <<buf, first, packs>>
           ELSE \E b \in r.outs :
                /\ res' = Call("save_from_avro", Unwrap(pmsg), Ret(b))
                /\ buf' = Some(b)
                /\ first' = IF IsSome(first) THEN first ELSE Some(b)
                /\ packs' = packs + 1
                /\ pc' = pc
    /\ pmsg' = None
    /\ UNCHANGED <<calls, directory, obj, origin>>

\* Builder::load_to_avro(obj): the bytes are moved into the call; res keeps
\* the Result of read_protocol_message, whose Err text load_to_avro logs
LoadToAvro ==
    /\ pc = "running"
    /\ IsSome(buf)
    /\ \E r \in { read_protocol_message(directory, Unwrap(buf)) },
          m \in { load_to_avro(directory, Unwrap(buf)) } :
           /\ res' = Call("load_to_avro", Unwrap(buf), r)
           /\ pc' = IF m.panic THEN "aborted" ELSE pc
           /\ pmsg' = IF m.panic THEN None ELSE Val(m)
    /\ buf' = None
    /\ UNCHANGED <<calls, directory, obj, first, origin, packs>>

\* T::load(&message) on the message held
LoadMessage(T) ==
    /\ pc = "running"
    /\ IsSome(pmsg)
    /\ \E r \in { Load(T, Unwrap(pmsg)) } :
           /\ res' = Call("load", <<T, Unwrap(pmsg)>>, r)
           /\ pc' = IF r.panic THEN "aborted" ELSE pc
           /\ obj' = IF r.panic THEN None ELSE Val(r)
    /\ pmsg' = None
    /\ UNCHANGED <<calls, directory, buf, first, origin, packs>>

\* Builder::save(obj)
BuilderSave ==
    /\ pc = "running"
    /\ IsSome(obj)
    /\ packs < MaxPacks
    /\ \E r \in { save(directory, Unwrap(obj)) } :
           IF r.panic
           THEN /\ res' = Call("Builder::save", Unwrap(obj), Panic)
                /\ pc' = "aborted"
                /\ UNCHANGED <<buf, first, packs>>
           ELSE \E b \in r.outs :
                /\ res' = Call("Builder::save", Unwrap(obj), Ret(b))
                /\ buf' = b
                /\ first' = IF IsSome(first) THEN first ELSE b
                /\ packs' = packs + 1
                /\ pc' = pc
    /\ obj' = None
    /\ UNCHANGED <<calls, directory, pmsg, origin>>

\* Builder::load(message): the bytes are moved into the call
BuilderLoad ==
    /\ pc = "running"
    /\ IsSome(buf)
    /\ \E r \in { load(directory, Unwrap(buf)) } :
           /\ res' = Call("Builder::load", Unwrap(buf), r)
           /\ pc' = IF r.panic THEN "aborted" ELSE pc
           /\ obj' = IF r.panic THEN None ELSE Val(r)
    /\ buf' = None
    /\ UNCHANGED <<calls, directory, pmsg, first, origin, packs>>

\* fill_byte_array(&mut StreamName::default(), &from)
FillByteArray(from) ==
    /\ pc = "running"
    /\ \E r \in { fill_byte_array(EmptyStreamName, from) } :
           /\ res' = Call("fill_byte_array", from, r)
           /\ pc' = IF r.panic THEN "aborted" ELSE pc
    /\ obj' = None
    /\ pmsg' = None
    /\ buf' = None
    /\ first' = None
    /\ origin' = None
    /\ packs' = 0
    /\ UNCHANGED <<calls, directory>>

\* pack_track_name(track_name)
PackTrackName(name) ==
    /\ pc = "running"
    /\ res' = Call("pack_track_name", name, Ret(pack_track_name(name)))
    /\ obj' = None
    /\ pmsg' = None
    /\ buf' = None
    /\ first' = None
    /\ origin' = None
    /\ packs' = 0
    /\ UNCHANGED <<calls, directory, pc>>

\* Unit::new(stream_name, track_name, track_type, unit)
NewUnit(stream_name, track_name, track_type) ==
    /\ pc = "running"
    /\ \E r \in { UnitNew(stream_name, track_name, track_type, 3) } :
           /\ res' = Call("Unit::new", <<stream_name, track_name, track_type>>, r)
           /\ pc' = IF r.panic THEN "aborted" ELSE pc
    /\ obj' = None
    /\ pmsg' = None
    /\ buf' = None
    /\ first' = None
    /\ origin' = None
    /\ packs' = 0
    /\ UNCHANGED <<calls, directory>>

Next ==
    \/ \E i \in 1..Len(Instances) : Construct(Instances[i])
    \/ \E i \in 1..Len(OtherObjects) : PyAny(OtherObjects[i])
    \/ \E i \in 1..Len(SchemaDirs) : BuilderImplNewAt(SchemaDirs[i])
    \/ \E schema_name \in SchemaNames : GetSchema(schema_name)
    \/ \E i \in 1..Len(Buffers) : Receive(Buffers[i])
    \/ \E i \in 1..Len(ForgedMessages) : Forge(ForgedMessages[i])
    \/ SaveMessage
    \/ SaveFromAvro
    \/ LoadToAvro
    \/ \E i \in 1..Len(RegisteredTypes) : LoadMessage(RegisteredTypes[i])
    \/ BuilderSave
    \/ BuilderLoad
    \/ \E from \in Names : FillByteArray(from)
    \/ \E name \in Names : PackTrackName(name)
    \/ \E name \in Names, track_type \in {"VIDEO", "META", "AUDIO"} :
          \/ NewUnit(name, NameOfLen(1), track_type)
          \/ NewUnit(NameOfLen(1), name, track_type)

Spec == Init /\ [][Next]_vars

----------------------------------------------------------------------------
(* One Builder shared by several threads.  get_schema, pack, unpack, save   *)
(* and load take &self.  A call reads the directory once for each           *)
(* get_schema it makes, and the calls of the threads interleave between     *)
(* those reads.  A panic unwinds the call of the thread it happened in;     *)
(* the other threads go on.                                                 *)

\* the schemas a call has found so far, as a directory; seen is the sequence
\* of <<name, Option<&Schema>>> of its lookups, a later lookup of a name
\* replacing an earlier one
RECURSIVE SeenDir(_)
SeenDir(seen) ==
    IF seen = << >> THEN [n \in {} |-> SNull]
    ELSE IF IsSome(seen[Len(seen)][2])
    THEN [n \in DOMAIN SeenDir(SubSeq(seen, 1, Len(seen) - 1)) \cup {seen[Len(seen)][1]} |->
             IF n = seen[Len(seen)][1] THEN Unwrap(seen[Len(seen)][2])
             ELSE SeenDir(SubSeq(seen, 1, Len(seen) - 1))[n]]
    ELSE [n \in DOMAIN SeenDir(SubSeq(seen, 1, Len(seen) - 1)) \ {seen[Len(seen)][1]} |->
             SeenDir(SubSeq(seen, 1, Len(seen) - 1))[n]]

\* The names a call looks up, in order, d holding what it has found so far:
\* the lookups before the first name that d lacks, and that name.

\* pack_message_into_envelope: get_record(MESSAGE_ENVELOPE_SCHEMA),
\* get_schema(schema_name), get_schema(MESSAGE_ENVELOPE_SCHEMA); an unwrap
\* that panics ends the call
PackLookups(d, schema_name, payload) ==
    <<MESSAGE_ENVELOPE_SCHEMA>> \o
        IF get_record(d, MESSAGE_ENVELOPE_SCHEMA).panic THEN << >>
        ELSE <<schema_name>> \o
                 IF ~IsSome(get_schema(d, schema_name)) THEN << >>
                 ELSE IF ToAvroDatum(Unwrap(get_schema(d, schema_name)), payload) = {}
                 THEN << >>
                 ELSE <<MESSAGE_ENVELOPE_SCHEMA>>

\* read_protocol_message: get_schema(MESSAGE_ENVELOPE_SCHEMA), and
\* get_schema(schema_name) when the envelope decodes to the two fields and
\* the schema field is UTF-8
ReadLookups(d, from) ==
    <<MESSAGE_ENVELOPE_SCHEMA>> \o
        IF ~IsSome(get_schema(d, MESSAGE_ENVELOPE_SCHEMA)) THEN << >>
        ELSE IF ~IsSome(FromAvroDatum(d[MESSAGE_ENVELOPE_SCHEMA], from)) THEN << >>
        ELSE IF Unwrap(FromAvroDatum(d[MESSAGE_ENVELOPE_SCHEMA], from)).k # "Record"
        THEN << >>
        ELSE IF ~MatchFields(d, Unwrap(FromAvroDatum(d[MESSAGE_ENVELOPE_SCHEMA],
                                                      from)).v).ok
                /\ MatchFields(d, Unwrap(FromAvroDatum(d[MESSAGE_ENVELOPE_SCHEMA],
                                                       from)).v).err
                      \in {"No outer AVRO record (MessageEnvelope) matched",
                           "Failed to parse schema name, not a valid UTF-8"}
        THEN << >>
        ELSE << FromUtf8(Unwrap(FromAvroDatum(d[MESSAGE_ENVELOPE_SCHEMA],
                                              from)).v[1][2].v) >>

\* T::save: mb.get_record(schema of T) first; StreamTracksResponse::save
\* then mb.get_record(TRACK_INFO_SCHEMA) for each track, up to a track whose
\* type panics
SaveLookups(d, o) ==
    <<SchemaOf(o.cls)>> \o
        IF o.cls # "StreamTracksResponse" \/ get_record(d, SchemaOf(o.cls)).panic
        THEN << >>
        ELSE [i \in 1..Cardinality({ i \in 1..Len(o.tracks) :
                        \A j \in 1..(i - 1) :
                            ~TrackInfoToValue(d, o.tracks[j]).panic }) |->
                 TRACK_INFO_SCHEMA]

\* Builder::save: the lookups of T::save, then those of save_from_avro
BuilderSaveLookups(d, o) ==
    IF \A i \in 1..Len(SaveTypes) : o.cls # SaveTypes[i] THEN << >>
    ELSE SaveLookups(d, o) \o
             IF Save(d, o).panic THEN << >>
             ELSE IF ~IsSome(Val(Save(d, o))) THEN << >>
             ELSE PackLookups(d, Unwrap(Val(Save(d, o))).schema,
                              Unwrap(Val(Save(d, o))).object)

Lookups(d, op, arg) ==
    CASE op = "get_schema" -> <<arg>>
      [] op = "save_from_avro" -> PackLookups(d, arg.schema, arg.object)
      [] op = "load_to_avro" -> ReadLookups(d, arg)
      [] op = "save" -> SaveLookups(d, arg)
      [] op = "load" -> << >>
      [] op = "Builder::save" -> BuilderSaveLookups(d, arg)
      [] op = "Builder::load" -> ReadLookups(d, arg)

\* the outcomes of a packing call: a panic, or one of its byte strings
Returned(packed) ==
    IF packed.panic THEN {Panic} ELSE { Ret(b) : b \in packed.outs }

\* the outcomes of the call op(arg) on the directory d
Outcomes(d, op, arg) ==
    CASE op = "get_schema" -> { Ret(get_schema(d, arg)) }
      [] op = "save_from_avro" -> Returned(save_from_avro(d, arg))
      [] op = "load_to_avro" -> { load_to_avro(d, arg) }
      [] op = "save" -> { Save(d, arg) }
      [] op = "load" -> { Load(arg[1], arg[2]) }
      [] op = "Builder::save" -> Returned(save(d, arg))
      [] op = "Builder::load" -> { load(d, arg) }

\* The calls the threads make: lookups of a name in and of one outside the
\* catalog; packing a message with two attributes, of a schema outside the
\* catalog (a panic) and of a keep-alive; unpacking an envelope of an
\* unknown schema, of a keep-alive and a buffer that is too short; T::save
\* and T::load; Builder::save of a message, of a message whose unit has the
\* fallback type (a panic) and of an object that is no message; and
\* Builder::load.
SharedCalls ==
    << <<"get_schema", TRACK_TYPE_SCHEMA>>,
       <<"get_schema", UNKNOWN_SCHEMA>>,
       <<"save_from_avro", Unwrap(Val(Save(BuilderImplNew, Instances[2])))>>,
       <<"save_from_avro", ProtocolMessage(UNKNOWN_SCHEMA, VString("m"))>>,
       <<"save_from_avro", ProtocolMessage(KEEPALIVE_MESSAGE_SCHEMA, VString("m"))>>,
       <<"load_to_avro", Envelope(Utf8(UNKNOWN_SCHEMA), EncodeBytes(Utf8("m")))>>,
       <<"load_to_avro", Envelope(Utf8(KEEPALIVE_MESSAGE_SCHEMA), EncodeBytes(Utf8("m")))>>,
       <<"load_to_avro", <<1, 2, 3>> >>,
       <<"save", Instances[1]>>,
       <<"load", <<"KeepAliveMessage",
                   ProtocolMessage(KEEPALIVE_MESSAGE_SCHEMA, VString("m"))>> >>,
       <<"Builder::save", Instances[1]>>,
       <<"Builder::save", Instances[3]>>,
       <<"Builder::save", OtherObjects[2]>>,
       <<"Builder::load", Envelope(Utf8(KEEPALIVE_MESSAGE_SCHEMA), EncodeBytes(Utf8("m")))>> >>

\* thread c calls op(arg) on the shared Builder
Enter(c, op, arg) ==
    /\ calls[c].at = "idle"
    /\ calls' = [calls EXCEPT ![c] = [at |-> "called", op |-> op, arg |-> arg,
                                      seen |-> << >>]]
    /\ UNCHANGED <<directory, pc, obj, pmsg, buf, res, first, origin, packs>>

\* a lookup that keeps the name it missed in the directory, with the null
\* schema
LookupCaching(c) ==
    /\ calls[c].at = "called"
    /\ Len(calls[c].seen)
           < Len(Lookups(SeenDir(calls[c].seen), calls[c].op, calls[c].arg))
    /\ \E name \in { Lookups(SeenDir(calls[c].seen), calls[c].op,
                             calls[c].arg)[Len(calls[c].seen) + 1] } :
           /\ calls' = [calls EXCEPT ![c].seen =
                           Append(@, <<name, get_schema(directory, name)>>)]
           /\ directory' = [n \in DOMAIN directory \cup {name} |->
                               IF n \in DOMAIN directory THEN directory[n] ELSE SNull]
    /\ UNCHANGED <<pc, obj, pmsg, buf, res, first, origin, packs>>

\* the call of thread c makes its next self.get_schema(name):
\* self.directory.get(&String::from(schema_name))
Lookup(c) ==
    /\ calls[c].at = "called"
    /\ Len(calls[c].seen)
           < Len(Lookups(SeenDir(calls[c].seen), calls[c].op, calls[c].arg))
    /\ \E name \in { Lookups(SeenDir(calls[c].seen), calls[c].op,
                             calls[c].arg)[Len(calls[c].seen) + 1] } :
           calls' = [calls EXCEPT ![c].seen =
                        Append(@, <<name, get_schema(directory, name)>>)]
    /\ UNCHANGED <<directory, pc, obj, pmsg, buf, res, first, origin, packs>>

\* the call of thread c has made its lookups and returns, or panics
Return(c) ==
    /\ calls[c].at = "called"
    /\ Len(calls[c].seen)
           = Len(Lookups(SeenDir(calls[c].seen), calls[c].op, calls[c].arg))
    /\ \E out \in Outcomes(SeenDir(calls[c].seen), calls[c].op, calls[c].arg) :
           calls' = [calls EXCEPT ![c] = [at |-> "returned", op |-> calls[c].op,
                                          arg |-> calls[c].arg, out |-> out]]
    /\ UNCHANGED <<directory, pc, obj, pmsg, buf, res, first, origin, packs>>

\* thread c has taken the outcome of its call
Leave(c) ==
    /\ calls[c].at = "returned"
    /\ calls' = [calls EXCEPT ![c] = Idle]
    /\ UNCHANGED <<directory, pc, obj, pmsg, buf, res, first, origin, packs>>

NextShared ==
    \/ \E c \in Callers, i \in 1..Len(SharedCalls) :
          Enter(c, SharedCalls[i][1], SharedCalls[i][2])
    \/ \E c \in Callers : Lookup(c)
    \/ \E c \in Callers : Return(c)
    \/ \E c \in Callers : Leave(c)

SpecShared == Init /\ [][NextShared]_vars

----------------------------------------------------------------------------
(* Properties.  Each is read off res, the last call made, and the values   *)
(* of the exchange it belongs to.                                           *)

\* the first TRACK_NAME_MAX_LENGTH bytes of s, zero-extended to that length
FirstSixteen(s) ==
    [i \in 1..TRACK_NAME_MAX_LENGTH |-> IF i <= Len(s) THEN s[i] ELSE 0]

\* the kind of value a schema asks for
KindOf(s) ==
    CASE s.k = "null" -> "Null"
      [] s.k = "boolean" -> "Boolean"
      [] s.k = "int" -> "Int"
      [] s.k = "long" -> "Long"
      [] s.k = "bytes" -> "Bytes"
      [] s.k = "string" -> "String"
      [] s.k = "enum" -> "Enum"
      [] s.k = "array" -> "Array"
      [] s.k = "map" -> "Map"
      [] s.k = "record" -> "Record"

\* x is a record with exactly the fields of s: their names, in their order,
\* each of its kind, nested records likewise
RECURSIVE HasShape(_, _)
HasShape(s, x) ==
    /\ x.k = "Record"
    /\ Len(x.v) = Len(s.fields)
    /\ \A i \in 1..Len(x.v) :
          /\ x.v[i][1] = s.fields[i][1]
          /\ x.v[i][2].k = KindOf(s.fields[i][2])
          /\ s.fields[i][2].k = "record" => HasShape(s.fields[i][2], x.v[i][2])

\* x has the structure of s all the way down, whatever its enum literals
RECURSIVE Conforms(_, _)
Conforms(s, x) ==
    /\ x.k = KindOf(s)
    /\ CASE s.k = "array" -> \A i \in 1..Len(x.v) : Conforms(s.items, x.v[i])
         [] s.k = "map" -> \A p \in x.v : Conforms(s.values, p[2])
         [] s.k = "record" ->
               /\ Len(x.v) = Len(s.fields)
               /\ \A i \in 1..Len(x.v) :
                     /\ x.v[i][1] = s.fields[i][1]
                     /\ Conforms(s.fields[i][2], x.v[i][2])
         [] OTHER -> TRUE

\* no byte string inside x is longer than an identity buffer
RECURSIVE IdentitiesFit(_)
IdentitiesFit(x) ==
    CASE x.k = "Bytes" -> Len(x.v) <= TRACK_NAME_MAX_LENGTH
      [] x.k = "Array" -> \A i \in 1..Len(x.v) : IdentitiesFit(x.v[i])
      [] x.k = "Record" -> \A i \in 1..Len(x.v) : IdentitiesFit(x.v[i][2])
      [] OTHER -> TRUE

\* the enum fields of a conforming x in field order, each as
\* <<literal, TRUE when the literal is in the schema's literal table>>
RECURSIVE EnumFields(_, _)
EnumFields(s, x) ==
    CASE s.k = "enum" ->
            << <<x.v[2], \E j \in 1..Len(s.symbols) : s.symbols[j] = x.v[2]>> >>
      [] s.k = "array" -> Concat([i \in 1..Len(x.v) |-> EnumFields(s.items, x.v[i])])
      [] s.k = "record" ->
            Concat([i \in 1..Len(x.v) |-> EnumFields(s.fields[i][2], x.v[i][2])])
      [] OTHER -> << >>

\* the enum fields of a loaded message in the same order, as variant names
Variants(t) ==
    CASE t.cls = "NotifyMessage" -> <<t.stream_unit.track_type, t.notify_type[1]>>
      [] t.cls = "ServicesFFProbeResponse" -> <<t.response_type>>
      [] t.cls = "StreamTracksResponse" ->
            [i \in 1..Len(t.tracks) |-> t.tracks[i].track_type]
      [] t.cls \in {"UnitElementMessage", "StreamTrackUnitElementsRequest",
                    "StreamTrackUnitElementsResponse", "StreamTrackUnitsRequest",
                    "StreamTrackUnitsResponse"} -> <<t.stream_unit.track_type>>
      [] OTHER -> << >>

\* the last call was T::load on a message of T's schema that has T's
\* structure, and whose enum fields (track kind, notification kind, probe
\* response kind) carry a literal outside the table
LoadedUnknownLiteral ==
    /\ res.op = "load"
    /\ res.arg[1] # "PingRequestResponse"
    /\ res.arg[2].schema = SchemaOf(res.arg[1])
    /\ Conforms(directory[SchemaOf(res.arg[1])], res.arg[2].object)
    /\ \E i \in 1..Len(EnumFields(directory[SchemaOf(res.arg[1])], res.arg[2].object)) :
          ~EnumFields(directory[SchemaOf(res.arg[1])], res.arg[2].object)[i][2]

\* b begins with two length-prefixed byte strings
IsRun(h) ==
    \E n \in {Len(h) - 1, Len(h) - 2} :
        n >= 0 /\ EncodeBytes(SubSeq(h, Len(h) - n + 1, Len(h))) = h
HoldsEnvelope(b) ==
    \E i \in 1..Len(b) : \E j \in (i + 1)..Len(b) :
        IsRun(SubSeq(b, 1, i)) /\ IsRun(SubSeq(b, i + 1, j))

\* b is a well-formed envelope whose schema field is UTF-8 and no key of the
\* catalog
UnknownSchemaEnvelope(b) ==
    /\ DecodeBytes(b).ok
    /\ DecodeBytes(DecodeBytes(b).rest).ok
    /\ IsUtf8(DecodeBytes(b).v)
    /\ FromUtf8(DecodeBytes(b).v) \notin DOMAIN directory

\* C1: round-trip law.  For the message t the caller constructed (origin),
\* of whatever registered type: saving and packing it never aborts, and
\* loading the unpacked bytes as t's type (T::load or Builder::load) yields
\* Some(t') with t' = t.
RoundTripLaw ==
    IsSome(origin) =>
        /\ res.op \in {"save", "save_from_avro", "Builder::save"} => ~res.out.panic
        /\ (res.op = "load" /\ packs >= 1 /\ res.arg[1] = Unwrap(origin).cls)
              => res.out = Ret(Some(Unwrap(origin)))
        /\ res.op = "Builder::load" => res.out = Ret(Some(Unwrap(origin)))

\* C2: byte-exact re-encode.  Every envelope packed again in an exchange,
\* from the message that the first envelope was unpacked and mapped to, is
\* byte for byte the first envelope.
ByteExactReencode ==
    (/\ IsSome(origin)
     /\ packs >= 2
     /\ res.op = "Builder::save"
     /\ ~res.out.panic) => buf = first

\* C3: truncation law on unpack.  fill_byte_array and Unit::new, given an
\* identity byte string of any length, return (never abort) and leave the
\* first min(16, len) bytes of it, zero-extended, in the 16-byte buffer.
TruncationOnUnpack ==
    /\ res.op = "fill_byte_array" =>
          /\ ~res.out.panic
          /\ Val(res.out) = FirstSixteen(res.arg)
    /\ res.op = "Unit::new" =>
          /\ ~res.out.panic
          /\ Val(res.out).stream_name = FirstSixteen(res.arg[1])
          /\ Val(res.out).track_name = FirstSixteen(res.arg[2])

UnknownSchemaDecode ==
    (res.op = "load_to_avro" /\ UnknownSchemaEnvelope(res.arg)) =>
        /\ pc = "running"
        /\ res.out =
              Ret(Err("No valid schema found in schema catalog for the schema ("
                      \o FromUtf8(DecodeBytes(res.arg).v)
                      \o ") in serialized record"))
        /\ pmsg = None

\* C5 witness: an envelope naming a schema outside the catalog, with a
\* payload that decodes under no schema, was unpacked and answered with Err
UnknownSchemaSeen ==
    /\ res.op = "load_to_avro"
    /\ res.arg = Envelope(Utf8(UNKNOWN_SCHEMA), <<1, 2, 3>>)
    /\ UnknownSchemaEnvelope(res.arg)
    /\ ~Val(res.out).ok

\* C6: malformed-envelope decode.  read_protocol_message returns a Result
\* for every buffer (no panic), and Ok only for a buffer that begins with
\* the two byte strings of an envelope: every other buffer yields Err.
MalformedEnvelopeDecode ==
    res.op = "load_to_avro" =>
        /\ ~res.out.panic
        /\ Val(res.out).ok => HoldsEnvelope(res.arg)

\* C6 witness: the 3-byte buffer was unpacked and answered with Err
ShortBufferSeen ==
    /\ res.op = "load_to_avro"
    /\ res.arg = <<1, 2, 3>>
    /\ ~HoldsEnvelope(res.arg)
    /\ ~res.out.panic
    /\ ~Val(res.out).ok

\* C7: enum forward-compatibility.  Loading a record of T's schema name and
\* structure whose track-kind, notification-kind or probe-response-kind
\* field carries a literal outside the literal table succeeds (Some), and
\* every such field of the loaded message is the NotImplemented variant.
EnumForwardCompatibility ==
    LoadedUnknownLiteral =>
        /\ ~res.out.panic
        /\ IsSome(Val(res.out))
        /\ \A i \in 1..Len(Variants(Unwrap(Val(res.out)))) :
              ~EnumFields(directory[SchemaOf(res.arg[1])], res.arg[2].object)[i][2]
                  => Variants(Unwrap(Val(res.out)))[i] = "NotImplemented"

\* a notification whose kind is the literal DELETED was loaded, and its
\* kind is NotImplemented
UnknownLiteralSeen ==
    /\ LoadedUnknownLiteral
    /\ res.arg[1] = "NotifyMessage"
    /\ IsSome(Val(res.out))
    /\ Unwrap(Val(res.out)).notify_type = <<"NotImplemented">>

\* C8: the ping kind has a fallback.  Loading a PingRequestResponse whose
\* type literal is neither REQUEST nor RESPONSE yields a variant that is
\* neither Request nor Response.
PingKindFallback ==
    (/\ res.op = "load"
     /\ res.arg[1] = "PingRequestResponse"
     /\ ~res.out.panic
     /\ IsSome(Val(res.out))
     /\ Field(res.arg[2].object, 3).v[2] \notin {"REQUEST", "RESPONSE"})
        => Unwrap(Val(res.out)).mtype \notin {"Request", "Response"}

\* C9: schema-name gate.  T::load returns None for every message whose
\* schema is not T's schema name, whatever its object.
SchemaNameGate ==
    (res.op = "load" /\ res.arg[2].schema # SchemaOf(res.arg[1]))
        => res.out = Ret(None)

\* C10: shape strictness.  T::load returns None for every message whose
\* object is not a record of exactly T's fields, each at its position and
\* of its kind, the nested unit record likewise.
ShapeStrictness ==
    (res.op = "load" /\ ~HasShape(directory[SchemaOf(res.arg[1])], res.arg[2].object))
        => res.out = Ret(None)


----------------------------------------------------------------------------
(* Collections, attribute maps and dispatch. *)

\* the message types that carry an array, and the position of its field
CollectionTypes ==
    {"StreamTrackUnitElementsResponse", "StreamTracksResponse",
     "StreamTrackUnitsResponse"}
ArrayAt(T) == IF T = "StreamTrackUnitsResponse" THEN 5 ELSE 3

\* x is a record that holds an array where T's array field sits
HasWireArray(T, x) ==
    /\ x.k = "Record"
    /\ Len(x.v) >= ArrayAt(T)
    /\ x.v[ArrayAt(T)][2].k = "Array"
WireArray(T, x) == x.v[ArrayAt(T)][2].v

\* the wire element e is of the kind T's elements are mapped from
ElementMaps(T, e) ==
    CASE T = "StreamTrackUnitElementsResponse" ->
            e.k = "Record" /\ Kinds(e.v) = <<"Bytes", "Map">>
      [] T = "StreamTracksResponse" ->
            e.k = "Record" /\ Kinds(e.v) = <<"Bytes", "Enum">>
      [] T = "StreamTrackUnitsResponse" -> e.k = "Long"

\* the collection of a loaded message t, and element c of it being the
\* wire element e mapped
CollectionOf(t) ==
    CASE t.cls = "StreamTrackUnitElementsResponse" -> t.values
      [] t.cls = "StreamTracksResponse" -> t.tracks
      [] t.cls = "StreamTrackUnitsResponse" -> t.units
ElementIs(T, c, e) ==
    /\ ElementMaps(T, e)
    /\ CASE T = "StreamTrackUnitElementsResponse" -> c.data = Field(e, 1).v
         [] T = "StreamTracksResponse" -> c.track_name = FirstSixteen(Field(e, 1).v)
         [] T = "StreamTrackUnitsResponse" -> c = e.v

\* C11: no partial collections.  Loading a StreamTrackUnitElementsResponse,
\* StreamTracksResponse or StreamTrackUnitsResponse whose wire array holds an
\* element that does not map returns None; and whenever the load returns
\* Some, the collection has as many elements as the wire array, element i
\* being wire element i mapped.
NoPartialCollections ==
    (/\ res.op = "load"
     /\ res.arg[1] \in CollectionTypes
     /\ HasWireArray(res.arg[1], res.arg[2].object)) =>
        /\ (\E i \in 1..Len(WireArray(res.arg[1], res.arg[2].object)) :
               ~ElementMaps(res.arg[1], WireArray(res.arg[1], res.arg[2].object)[i]))
              => res.out = Ret(None)
        /\ (~res.out.panic /\ IsSome(Val(res.out))) =>
              /\ Len(CollectionOf(Unwrap(Val(res.out))))
                    = Len(WireArray(res.arg[1], res.arg[2].object))
              /\ \A i \in 1..Len(WireArray(res.arg[1], res.arg[2].object)) :
                    ElementIs(res.arg[1], CollectionOf(Unwrap(Val(res.out)))[i],
                              WireArray(res.arg[1], res.arg[2].object)[i])

\* x holds, at any depth, a string-keyed map with a value that is no string
RECURSIVE HasNonStringMapValue(_)
HasNonStringMapValue(x) ==
    CASE x.k = "Map" -> \E p \in x.v : p[2].k # "String"
      [] x.k = "Array" -> \E i \in 1..Len(x.v) : HasNonStringMapValue(x.v[i])
      [] x.k = "Record" -> \E i \in 1..Len(x.v) : HasNonStringMapValue(x.v[i][2])
      [] OTHER -> FALSE

\* C12: non-string map values are a mapping failure.  T::load of a message
\* whose attribute map (of the message, of a payload in its values, of a
\* stream in its streams) holds a value that is no string returns None: no
\* message is loaded with a substituted value for that entry.
NonStringMapValueFails ==
    (res.op = "load" /\ HasNonStringMapValue(res.arg[2].object))
        => res.out = Ret(None)

\* C13: decode errors are values, not aborts.  Builder::load returns Some or
\* None for every byte buffer, no registered type's load panicking on the
\* value unpacked from it; and ServicesFFProbeResponse::load of a record
\* whose streams array holds an element that is no map returns None.
DecodeErrorsAreValues ==
    /\ res.op = "Builder::load" => ~res.out.panic
    /\ (/\ res.op = "load"
        /\ res.arg[1] = "ServicesFFProbeResponse"
        /\ res.arg[2].schema = SERVICES_FFPROBE_RESPONSE_SCHEMA
        /\ res.arg[2].object.k = "Record"
        /\ Kinds(res.arg[2].object.v) = <<"Long", "Enum", "Long", "Array">>
        /\ \E i \in 1..Len(Field(res.arg[2].object, 4).v) :
              Field(res.arg[2].object, 4).v[i].k # "Map")
          => res.out = Ret(None)

\* the order in which the registered types are tried
DispatchOrder ==
    << "UnitElementMessage", "NotifyMessage", "PingRequestResponse",
       "ServicesFFProbeRequest", "ServicesFFProbeResponse",
       "StreamTrackUnitElementsRequest", "StreamTrackUnitElementsResponse",
       "StreamTracksRequest", "StreamTracksResponse",
       "StreamTrackUnitsRequest", "StreamTrackUnitsResponse",
       "KeepAliveMessage" >>

\* T::load(m) is Some; type number i is the first of the order it is for
LoadedSome(T, m) == ~Load(T, m).panic /\ IsSome(Val(Load(T, m)))
FirstToLoad(m, i) ==
    /\ LoadedSome(DispatchOrder[i], m)
    /\ \A j \in 1..(i - 1) : ~LoadedSome(DispatchOrder[j], m)

\* n is the schema name of a registered type
IsMessageSchema(n) == \E i \in 1..Len(DispatchOrder) : SchemaOf(DispatchOrder[i]) = n

\* out is what the dispatch owes for the unpacked message m
DispatchOn(m, out) ==
    /\ \A i \in 1..Len(DispatchOrder) :
          FirstToLoad(m, i) => out = Load(DispatchOrder[i], m)
    /\ (m.schema \in DOMAIN directory /\ ~IsMessageSchema(m.schema))
          => out = Ret(None)
DispatchHolds(unpacked, out) ==
    /\ ~unpacked.panic
    /\ IF IsSome(Val(unpacked)) THEN DispatchOn(Unwrap(Val(unpacked)), out)
       ELSE out = Ret(None)

\* C14: dispatch on decode.  Builder::load returns None when unpacking
\* fails; otherwise, when some registered type's load is Some, it returns
\* the object of the first such type in the order UnitElementMessage, ...,
\* KeepAliveMessage, which is the order of its chain; and for a catalogued
\* schema name that is no registered type's it returns None.
DispatchOnDecode ==
    /\ LoadTypes = DispatchOrder
    /\ res.op = "Builder::load" =>
          DispatchHolds(load_to_avro(directory, res.arg), res.out)

\* C14 witness: an envelope was loaded as a KeepAliveMessage, the last type
\* of the order, after the eleven before it returned None
DispatchedToLastType ==
    /\ res.op = "Builder::load"
    /\ ~res.out.panic
    /\ IsSome(Val(res.out))
    /\ Unwrap(Val(res.out)).cls = "KeepAliveMessage"
    /\ FirstToLoad(Unwrap(Val(load_to_avro(directory, res.arg))), 12)

\* an envelope of the Unit schema, catalogued and no message type's, was
\* loaded and answered with None
UnregisteredSchemaLoaded ==
    /\ res.op = "Builder::load"
    /\ IsSome(Val(load_to_avro(directory, res.arg)))
    /\ Unwrap(Val(load_to_avro(directory, res.arg))).schema = UNIT_SCHEMA
    /\ res.out = Ret(None)

\* the registered types whose load of m does not return None
Matching(m) ==
    { i \in 1..Len(DispatchOrder) : Load(DispatchOrder[i], m) # Ret(None) }

\* C15: unique match.  For every ProtocolMessage (schema name and generic
\* value) at most one of the twelve registered types' loads returns
\* anything but None, so the outcome of the chain of Builder::load is the
\* same in whatever order the types are tried.
UniqueMatch ==
    IsSome(pmsg) => Cardinality(Matching(Unwrap(pmsg))) <= 1

\* C15 witness: a message is held that carries the KeepAliveMessage schema
\* name and loads as a StreamTrackUnitsRequest, whose load reads no schema
\* name: one type matches it, by the kinds of its fields
MatchedByShapeOnly ==
    /\ IsSome(pmsg)
    /\ Unwrap(pmsg).schema = KEEPALIVE_MESSAGE_SCHEMA
    /\ LoadedSome("StreamTrackUnitsRequest", Unwrap(pmsg))
    /\ Cardinality(Matching(Unwrap(pmsg))) = 1

\* out is what packing the message that o's own save returns gives: an
\* envelope whose schema field holds the schema name of o's type, or None
\* when o's save returns None
EncodedAs(o, out) ==
    \E r \in { Save(directory, o) } :
        /\ ~r.panic
        /\ IF IsSome(Val(r))
           THEN /\ IsSome(out)
                /\ Unwrap(out) \in save_from_avro(directory, Unwrap(Val(r))).outs
                /\ DecodeBytes(Unwrap(out)).ok
                /\ DecodeBytes(Unwrap(out)).v = Utf8(SchemaOf(o.cls))
           ELSE out = None

\* C16: dispatch on encode.  Builder::save of an instance of a registered
\* type T returns the envelope of T's save, whose schema field is T's schema
\* name constant; of an object that is an instance of no registered type it
\* returns None; save tries the same types in the same order as load.
DispatchOnEncode ==
    /\ SaveTypes = LoadTypes
    /\ (res.op = "Builder::save" /\ ~res.out.panic) =>
           IF \E i \in 1..Len(DispatchOrder) : res.arg.cls = DispatchOrder[i]
           THEN EncodedAs(res.arg, Val(res.out))
           ELSE Val(res.out) = None

\* C16 witness: Builder::save has returned the envelope of a
\* KeepAliveMessage, the last type of the chain
SavedLastType ==
    /\ res.op = "Builder::save"
    /\ ~res.out.panic
    /\ res.arg.cls = "KeepAliveMessage"
    /\ IsSome(Val(res.out))

\* Builder::save has returned None for an object that is no message
SavedNoMessage ==
    /\ res.op = "Builder::save"
    /\ res.out = Ret(None)
    /\ res.arg.cls = "Unit"

----------------------------------------------------------------------------
(* Packing and the catalog. *)

\* C17: packing an unknown type is fatal.  pack_message_into_envelope (as
\* called by save_from_avro) with a schema name that is no key of the
\* catalog panics and returns no bytes; with a catalogued name and a value
\* valid under that schema it returns envelope bytes whose schema field is
\* the bytes of that name.
PackUnknownIsFatal ==
    res.op = "save_from_avro" =>
        /\ res.arg.schema \notin DOMAIN directory => res.out.panic
        /\ (/\ res.arg.schema \in DOMAIN directory
            /\ Validate(directory[res.arg.schema], res.arg.object)) =>
               /\ ~res.out.panic
               /\ DecodeBytes(Val(res.out)).ok
               /\ DecodeBytes(Val(res.out)).v = Utf8(res.arg.schema)

\* C17 witness: a message naming a schema the catalog lacks has been handed
\* to save_from_avro, which panicked
PackedUnknownSchema ==
    /\ res.op = "save_from_avro"
    /\ res.arg.schema \notin DOMAIN directory
    /\ res.out.panic
    /\ pc = "aborted"

\* a catalogued name and a valid value have been packed
PackedKnownSchema ==
    /\ res.op = "save_from_avro"
    /\ res.arg.schema \in DOMAIN directory
    /\ Validate(directory[res.arg.schema], res.arg.object)
    /\ ~res.out.panic

\* C18: catalog completeness.  In the catalog built from the full manifest,
\* get_schema returns Some for the envelope schema name and for the file
\* name of every (group, file) pair of the manifest, and so for every
\* schema name a save or a pack looks up.
CatalogComplete ==
    /\ \A i \in 1..Len(schema_files) :
           IsSome(get_schema(directory, schema_files[i][2]))
    /\ IsSome(get_schema(directory, MESSAGE_ENVELOPE_SCHEMA))
    /\ IsSome(get_schema(directory, TRACK_INFO_SCHEMA))
    /\ \A i \in 1..Len(SaveTypes) :
           IsSome(get_schema(directory, SchemaOf(SaveTypes[i])))
    /\ (/\ res.op = "get_schema"
        /\ res.arg[1] = ManifestFiles
        /\ \E i \in 1..Len(schema_files) : res.arg[3] = schema_files[i][2]) =>
           IsSome(Val(res.out))

\* C18 witness: a catalog has been built from the manifest and the name of
\* the manifest's last file has been looked up in it
ManifestNameLookedUp ==
    /\ res.op = "get_schema"
    /\ res.arg[1] = ManifestFiles
    /\ res.arg[3] = schema_files[Len(schema_files)][2]
    /\ IsSome(Val(res.out))

\* every file under the path prefix p is there and holds a schema
Readable(p) == \A i \in 1..Len(p) : p[i] # None /\ p[i] # Some(Unparsable)

\* the schemas the files under a readable path prefix p declare, in
\* manifest order
Texts(p) == [i \in 1..Len(p) |-> Unwrap(p[i])]

\* namespace + "." + local name + ".avsc", the namespace "insight.transport"
\* when the schema declares none
CanonicalName(s) ==
    IF s.namespace = None THEN "insight.transport." \o s.name \o ".avsc"
    ELSE s.namespace[1] \o "." \o s.name \o ".avsc"

\* the canonical names of the records and enums of a parsed list
CanonicalNames(schemas) ==
    { CanonicalName(schemas[i]) :
        i \in { j \in 1..Len(schemas) : schemas[j].k \in {"record", "enum"} } }

\* C19: canonical naming.  The keys of a catalog are the canonical names of
\* the records and enums of the parsed list, each mapped to a schema of that
\* canonical name; a schema of another kind adds no key; get_schema returns
\* Some exactly for a name that equals a key, character for character.
CanonicalNaming ==
    /\ (res.op = "BuilderImpl::new" /\ ~res.out.panic) =>
           /\ DOMAIN Val(res.out) = CanonicalNames(Texts(res.arg))
           /\ \A n \in DOMAIN Val(res.out) :
                  /\ Val(res.out)[n].k \in {"record", "enum"}
                  /\ CanonicalName(Val(res.out)[n]) = n
    /\ res.op = "get_schema" =>
           IF res.arg[3] \in CanonicalNames(Texts(res.arg[1]))
           THEN /\ IsSome(Val(res.out))
                /\ CanonicalName(Unwrap(Val(res.out))) = res.arg[3]
           ELSE Val(res.out) = None

\* C19 witness: a catalog built from a record without namespace, a fixed and
\* an enum has been asked for the record's key in small letters, and
\* answered None
LookedUpInSmallLetters ==
    /\ res.op = "get_schema"
    /\ res.arg[1] = SchemaDirs[2]
    /\ "insight.transport.X.avsc" \in DOMAIN res.arg[2]
    /\ "insight.transport.F.avsc" \notin DOMAIN res.arg[2]
    /\ res.arg[3] = "insight.transport.x.avsc"
    /\ Val(res.out) = None

\* the key of the record without namespace has been looked up and found
LookedUpDefaultNamespace ==
    /\ res.op = "get_schema"
    /\ res.arg[1] = SchemaDirs[2]
    /\ res.arg[3] = "insight.transport.X.avsc"
    /\ Val(res.out) = SchemaDirs[2][1]

\* the place in the parsed list of the last record or enum of canonical
\* name n
LastOf(schemas, n) ==
    CHOOSE i \in 1..Len(schemas) :
        /\ schemas[i].k \in {"record", "enum"}
        /\ CanonicalName(schemas[i]) = n
        /\ \A j \in (i + 1)..Len(schemas) :
               ~(schemas[j].k \in {"record", "enum"} /\ CanonicalName(schemas[j]) = n)

\* C20: duplicate canonical names are last-write-wins.  Building a catalog
\* from a parsed list in which two schemas have the same canonical name
\* returns a catalog, which maps every canonical name to the last schema of
\* the list that has this name and has one key per distinct canonical name.
LastWriteWins ==
    (res.op = "BuilderImpl::new" /\ Readable(res.arg)) =>
        /\ ~res.out.panic
        /\ pc = "running"
        /\ Cardinality(DOMAIN Val(res.out))
               = Cardinality(CanonicalNames(Texts(res.arg)))
        /\ \A n \in CanonicalNames(Texts(res.arg)) :
               /\ n \in DOMAIN Val(res.out)
               /\ Val(res.out)[n] = Texts(res.arg)[LastOf(Texts(res.arg), n)]

\* C20 witness: a catalog has been built from a list whose first two schemas
\* differ and have the same canonical name, and holds the second
DuplicateNameBuilt ==
    /\ res.op = "BuilderImpl::new"
    /\ Readable(res.arg)
    /\ Texts(res.arg)[1] # Texts(res.arg)[2]
    /\ Texts(res.arg)[1].k = "record" /\ Texts(res.arg)[2].k = "record"
    /\ CanonicalName(Texts(res.arg)[1]) = CanonicalName(Texts(res.arg)[2])
    /\ Val(res.out)[CanonicalName(Texts(res.arg)[1])] = Texts(res.arg)[2]
    /\ Cardinality(DOMAIN Val(res.out)) < Len(res.arg)

----------------------------------------------------------------------------
(* Determinism, error reporting and the value mappings. *)

\* C22: determinism.  A catalog built again from the manifest equals the
\* first, and the envelope bytes of a message are a function of the
\* message: every encoding the code can produce for the message handed to
\* Builder::save or save_from_avro, with one catalog or the other, is the
\* byte string returned.
Determinism ==
    /\ (res.op = "BuilderImpl::new" /\ res.arg = ManifestFiles) =>
           Val(res.out) = directory
    /\ (res.op = "Builder::save" /\ ~res.out.panic) =>
           save(directory, res.arg).outs = { Val(res.out) }
    /\ (res.op = "save_from_avro" /\ ~res.out.panic) =>
           save_from_avro(directory, res.arg).outs = { Val(res.out) }

\* a message whose attribute map holds two entries has been encoded, and the
\* code can produce two byte strings for it
TwoEncodingsSeen ==
    /\ res.op = "Builder::save"
    /\ ~res.out.panic
    /\ res.arg.cls = "UnitElementMessage"
    /\ Cardinality(res.arg.attributes) = 2
    /\ Cardinality(save(directory, res.arg).outs) = 2

\* b begins with the two byte strings of an envelope and the first, the
\* schema field, is UTF-8
SchemaFieldRead(b) ==
    /\ DecodeBytes(b).ok
    /\ DecodeBytes(DecodeBytes(b).rest).ok
    /\ IsUtf8(DecodeBytes(b).v)

\* the text e holds the name n: e is n alone or n between the texts that
\* read_protocol_message writes around a name
Mentions(e, n) ==
    \E pre \in {"", "No valid schema found in schema catalog for the schema ("},
       post \in {"", ") in serialized record"} :
        e = pre \o n \o post

\* C23: decode failures name the schema when it is known.  Every Err that
\* read_protocol_message returns for a buffer whose schema field was read as
\* UTF-8 (the schema is no key of the catalog, or the payload does not
\* decode under the schema found) holds that schema name in its text.
DecodeFailuresNameSchema ==
    (/\ res.op = "load_to_avro"
     /\ ~res.out.panic
     /\ SchemaFieldRead(res.arg)
     /\ ~Val(res.out).ok) =>
        Mentions(Val(res.out).err, FromUtf8(DecodeBytes(res.arg).v))

\* an envelope naming the catalogued KeepAliveMessage schema with a payload
\* that does not decode under it was answered with the Err of the inner
\* decode, which holds no name
InnerFailureSeen ==
    /\ res.op = "load_to_avro"
    /\ res.arg = Envelope(Utf8(KEEPALIVE_MESSAGE_SCHEMA), << >>)
    /\ res.out = Ret(Err("Failed to parse inner AVRO serialized record"))

\* an envelope naming a schema outside the catalog was answered with an Err
\* that holds the name
UnknownSchemaNamed ==
    /\ res.op = "load_to_avro"
    /\ SchemaFieldRead(res.arg)
    /\ ~Val(res.out).ok
    /\ Mentions(Val(res.out).err, UNKNOWN_SCHEMA)

\* the first stage of unpacking that the buffer b fails: the decode of the
\* outer envelope, the UTF-8 reading of the schema field, the lookup of the
\* schema name, the decode of the payload; "none" if it passes all.  (An
\* envelope that decodes under the envelope schema is a record of the two
\* byte strings, so the stage that matches the two fields fails no buffer.)
FailingStage(b) ==
    IF ~(DecodeBytes(b).ok /\ DecodeBytes(DecodeBytes(b).rest).ok) THEN "outer"
    ELSE IF ~IsUtf8(DecodeBytes(b).v) THEN "utf8"
    ELSE IF FromUtf8(DecodeBytes(b).v) \notin DOMAIN directory THEN "lookup"
    ELSE IF ~IsSome(FromAvroDatum(directory[FromUtf8(DecodeBytes(b).v)],
                                  DecodeBytes(DecodeBytes(b).rest).v))
    THEN "inner"
    ELSE "none"

\* the stage an Err text belongs to
StageOfError(e) ==
    CASE e = "Failed to deserialize the outer message" -> "outer"
      [] e = "Failed to parse/match outer AVRO Record" -> "shape"
      [] e = "No outer AVRO record (MessageEnvelope) matched" -> "shape"
      [] e = "Failed to parse schema name, not a valid UTF-8" -> "utf8"
      [] e = "Failed to parse inner AVRO serialized record" -> "inner"
      [] OTHER -> "lookup"

\* field lists of a decoded outer record that are no (schema, payload) pair
\* of byte strings: a string for the schema, the two fields in the other
\* order, one field, three fields; each with a schema field that is no UTF-8
\* or names no schema of the catalog
Misshapen ==
    { << <<"schema", VString("t")>>, <<"payload", VBytes(<< >>)>> >>,
      << <<"payload", VBytes(<<255>>)>>, <<"schema", VBytes(<<255>>)>> >>,
      << <<"schema", VBytes(<<255>>)>> >>,
      << <<"schema", VBytes(Utf8("t"))>>, <<"payload", VBytes(<<1>>)>>,
         <<"last", VBoolean(TRUE)>> >> }

\* the two-field stage comes after the outer decode and before the reading
\* of the schema field: a decoded value that is no record, and a record of
\* any other fields, get the Err of this stage
ShapeStage ==
    /\ StageOfError(MatchEnvelope(directory, Some(VLong(1))).err) = "shape"
    /\ \A fields \in Misshapen :
           /\ StageOfError(MatchFields(directory, fields).err) = "shape"
           /\ MatchEnvelope(directory, Some(VRecord(fields)))
                  = MatchFields(directory, fields)

\* C24: staged, distinct unpack errors.  read_protocol_message returns Ok
\* for a buffer that passes every stage, and for any other buffer the Err
\* of the first stage it fails, in the order outer decode, UTF-8 of the
\* schema field, catalog lookup, payload decode; the texts of different
\* stages differ, and a payload is decoded only under a schema found.
StagedUnpackErrors ==
    (res.op = "load_to_avro" /\ ~res.out.panic) =>
        /\ ShapeStage
        /\ IF FailingStage(res.arg) = "none" THEN Val(res.out).ok
           ELSE /\ ~Val(res.out).ok
                /\ StageOfError(Val(res.out).err) = FailingStage(res.arg)
                /\ FailingStage(res.arg) = "lookup" =>
                       Val(res.out).err =
                           NoValidSchemaFound(FromUtf8(DecodeBytes(res.arg).v))

\* C24 witness: a buffer that names a schema outside the catalog and whose
\* payload decodes under no schema was answered with the Err of the lookup;
\* the payload was not decoded
LookupFailedFirst ==
    /\ res.op = "load_to_avro"
    /\ res.arg = Envelope(Utf8(UNKNOWN_SCHEMA), <<1, 2, 3>>)
    /\ FailingStage(res.arg) = "lookup"
    /\ StageOfError(Val(res.out).err) = "lookup"

\* every one of the four stages a buffer can fail has failed some buffer
StageFailed(stage) ==
    /\ res.op = "load_to_avro"
    /\ ~res.out.panic
    /\ ~Val(res.out).ok
    /\ FailingStage(res.arg) = stage
OuterStageFailed == StageFailed("outer")
Utf8StageFailed == StageFailed("utf8")
InnerStageFailed == StageFailed("inner")

\* the message o holds the NotImplemented variant as a track kind, as its
\* notification kind or as its probe-response kind
HasFallbackKind(o) ==
    \/ "stream_unit" \in DOMAIN o /\ o.stream_unit.track_type = "NotImplemented"
    \/ o.cls = "NotifyMessage" /\ o.notify_type = <<"NotImplemented">>
    \/ o.cls = "ServicesFFProbeResponse" /\ o.response_type = "NotImplemented"
    \/ /\ o.cls = "StreamTracksResponse"
       /\ \E i \in 1..Len(o.tracks) : o.tracks[i].track_type = "NotImplemented"

\* C25: encoding a fallback variant aborts.  T::save and Builder::save of a
\* message that holds the NotImplemented variant as a track kind,
\* notification kind or probe-response kind panic: no ProtocolMessage and
\* no bytes are returned, whether the message was constructed or loaded.
EncodingFallbackAborts ==
    (/\ res.op \in {"save", "Builder::save"}
     /\ \E i \in 1..Len(RegisteredTypes) : res.arg.cls = RegisteredTypes[i]
     /\ HasFallbackKind(res.arg)) =>
        /\ res.out.panic
        /\ pc = "aborted"

\* C25 witness: a message that a load returned with a NotImplemented kind
\* (the caller constructed none) was handed to save, which panicked
LoadedFallbackNotSaved ==
    /\ res.op \in {"save", "Builder::save"}
    /\ origin = None
    /\ HasFallbackKind(res.arg)
    /\ res.out.panic

\* each of the three kinds has been the NotImplemented one of a saved message
FallbackSaved(cls) ==
    /\ res.op \in {"save", "Builder::save"}
    /\ res.arg.cls = cls
    /\ HasFallbackKind(res.arg)
    /\ res.out.panic
FallbackTrackSaved == FallbackSaved("StreamTracksResponse")
FallbackNotifySaved ==
    FallbackSaved("NotifyMessage") /\ res.arg.stream_unit.track_type = "Video"
FallbackProbeSaved == FallbackSaved("ServicesFFProbeResponse")

\* C26: construction is all-or-nothing.  BuilderImpl::new on a path prefix
\* under which a manifest file is missing or unreadable, or holds a text
\* that fails the batch parse, panics and returns no catalog; a catalog
\* that is returned was built from all the files of the manifest, parsed
\* in one batch in manifest order.
AllOrNothing ==
    res.op = "BuilderImpl::new" =>
        IF Readable(res.arg)
        THEN /\ ~res.out.panic
             /\ Len(res.arg) = Len(schema_files)
             /\ parse_list(Val(schemas_raw(res.arg))) = Ok(Texts(res.arg))
             /\ DOMAIN Val(res.out) = CanonicalNames(Texts(res.arg))
             /\ \A n \in DOMAIN Val(res.out) :
                    Val(res.out)[n] = Texts(res.arg)[LastOf(Texts(res.arg), n)]
        ELSE /\ res.out.panic
             /\ pc = "aborted"

\* C26 witness: construction on a path prefix under which only the last
\* file of the manifest is missing has panicked
MissingFileAborted ==
    /\ res.op = "BuilderImpl::new"
    /\ res.arg[Len(schema_files)] = None
    /\ \A i \in 1..(Len(schema_files) - 1) : res.arg[i] = ManifestFiles[i]
    /\ res.out.panic
    /\ pc = "aborted"

\* construction on a path prefix with every file present and one text that
\* is no schema has panicked
UnparsableBatchAborted ==
    /\ res.op = "BuilderImpl::new"
    /\ \A i \in 1..Len(schema_files) : res.arg[i] # None
    /\ ~Readable(res.arg)
    /\ res.out.panic

\* the message returned holds the payloads of o: as many, in the same
\* order, each with the same data bytes and the same attribute map
SamePayloads(o, returned) ==
    /\ Len(returned.values) = Len(o.values)
    /\ \A i \in 1..Len(o.values) :
           /\ returned.values[i].data = o.values[i].data
           /\ returned.values[i].attributes = o.values[i].attributes

\* C27: payload order is preserved.  For the StreamTrackUnitElementsResponse
\* the caller constructed, with whatever sequence of payloads, the encode
\* returns (its stream_unit being of a kind that can be encoded), and the
\* decode of the bytes returns a response with as many payloads, in the same
\* order, each with the same data bytes and the same attribute map.
PayloadOrderPreserved ==
    (IsSome(origin) /\ Unwrap(origin).cls = "StreamTrackUnitElementsResponse") =>
        /\ (/\ res.op \in {"save", "save_from_avro", "Builder::save"}
            /\ ~HasFallbackKind(Unwrap(origin))) => ~res.out.panic
        /\ (\/ res.op = "Builder::load"
            \/ /\ res.op = "load"
               /\ packs >= 1
               /\ res.arg[1] = "StreamTrackUnitElementsResponse") =>
               /\ ~res.out.panic
               /\ IsSome(Val(res.out))
               /\ SamePayloads(Unwrap(origin), Unwrap(Val(res.out)))

\* C27 witness: a response of three payloads, the first and the last equal,
\* with attribute maps of two entries and of one, has been encoded and
\* decoded back
ThreePayloadsReturned ==
    /\ IsSome(origin)
    /\ Unwrap(origin).cls = "StreamTrackUnitElementsResponse"
    /\ Len(Unwrap(origin).values) = 3
    /\ res.op = "Builder::load"
    /\ IsSome(Val(res.out))
    /\ Len(Unwrap(Val(res.out)).values) = 3

\* the response of the two payloads 0, 1, 2 and 1, 2, 3 has been encoded,
\* unpacked and loaded
TwoPayloadsReturned ==
    /\ IsSome(origin)
    /\ res.op = "load"
    /\ packs >= 1
    /\ res.arg[1] = "StreamTrackUnitElementsResponse"
    /\ IsSome(Val(res.out))
    /\ Unwrap(Val(res.out)).values
           = << [data |-> <<0, 1, 2>>, attributes |-> {}],
                [data |-> <<1, 2, 3>>, attributes |-> {}] >>

\* the i16 that an int n is cast to holds n if n is in the range of i16,
\* and a value equal to n modulo 2^16 otherwise
IsCastToI16(x, n) ==
    /\ x \in -32768..32767
    /\ (x - n) % 65536 = 0

\* C28: notification kind mapping.  NotifyMessage::save writes notify_type
\* READY and last_element e for Ready(e), and NEW and -1 for New; load
\* returns Ready(last_element) for READY and New for NEW whatever
\* last_element holds; so a constructed message with Ready(e) or New comes
\* back from save, pack, unpack and load with the same kind.
NotifyKindMapping ==
    /\ (res.op = "save" /\ res.arg.cls = "NotifyMessage" /\ ~res.out.panic) =>
           /\ IsSome(Val(res.out))
           /\ IF res.arg.notify_type[1] = "Ready"
              THEN /\ Unwrap(Val(res.out)).object.v[4]
                          = <<"notify_type", VEnum(0, "READY")>>
                   /\ Unwrap(Val(res.out)).object.v[2]
                          = <<"last_element", VInt(res.arg.notify_type[2])>>
              ELSE /\ res.arg.notify_type = <<"New">>
                   /\ Unwrap(Val(res.out)).object.v[4]
                          = <<"notify_type", VEnum(1, "NEW")>>
                   /\ Unwrap(Val(res.out)).object.v[2]
                          = <<"last_element", VInt(-1)>>
    /\ (/\ res.op = "load"
        /\ res.arg[1] = "NotifyMessage"
        /\ ~res.out.panic
        /\ IsSome(Val(res.out))) =>
           /\ res.arg[2].object.v[4][2].v[2] = "READY" =>
                  /\ Unwrap(Val(res.out)).notify_type[1] = "Ready"
                  /\ IsCastToI16(Unwrap(Val(res.out)).notify_type[2],
                                 res.arg[2].object.v[2][2].v)
           /\ res.arg[2].object.v[4][2].v[2] = "NEW" =>
                  Unwrap(Val(res.out)).notify_type = <<"New">>
    /\ (/\ IsSome(origin)
        /\ Unwrap(origin).cls = "NotifyMessage"
        /\ Unwrap(origin).notify_type[1] \in {"Ready", "New"}
        /\ \/ res.op = "Builder::load"
           \/ res.op = "load" /\ packs >= 1 /\ res.arg[1] = "NotifyMessage") =>
           /\ ~res.out.panic
           /\ IsSome(Val(res.out))
           /\ Unwrap(Val(res.out)).notify_type = Unwrap(origin).notify_type

\* C28 witness: a record with notify_type NEW and last_element 5 has been
\* loaded as a NotifyMessage with New
NewLoadedWithLastElement ==
    /\ res.op = "load"
    /\ res.arg[1] = "NotifyMessage"
    /\ ~res.out.panic
    /\ IsSome(Val(res.out))
    /\ res.arg[2].object.v[2][2] = VInt(5)
    /\ Unwrap(Val(res.out)).notify_type = <<"New">>

\* Ready(-32768) has come back from save, pack, unpack and load
ReadyMinReturned ==
    /\ IsSome(origin)
    /\ Unwrap(origin).cls = "NotifyMessage"
    /\ Unwrap(origin).notify_type = <<"Ready", -32768>>
    /\ res.op = "Builder::load"
    /\ IsSome(Val(res.out))
    /\ Unwrap(Val(res.out)).notify_type = <<"Ready", -32768>>

\* New has been saved with last_element -1
NewSaved ==
    /\ res.op = "save"
    /\ res.arg.cls = "NotifyMessage"
    /\ res.arg.notify_type = <<"New">>
    /\ ~res.out.panic

\* the u128 w fits a signed 64-bit long
FitsLong(w) == w.e = 0 /\ w.r >= 0

\* C29: out-of-range time bounds are an error value on encode.  Saving a
\* StreamTrackUnitsRequest or StreamTrackUnitsResponse whose from_ms or
\* to_ms does not fit a signed 64-bit long returns without panicking and
\* yields no message and no bytes; when both fit (and the track kind can be
\* encoded) the longs written are from_ms and to_ms.
TimeBoundsOnEncode ==
    (/\ res.op \in {"save", "Builder::save"}
     /\ res.arg.cls \in {"StreamTrackUnitsRequest", "StreamTrackUnitsResponse"}) =>
        IF FitsLong(res.arg.from_ms) /\ FitsLong(res.arg.to_ms)
        THEN ~HasFallbackKind(res.arg) =>
                /\ ~res.out.panic
                /\ IsSome(Val(res.out))
                /\ res.op = "save" =>
                       \E i \in 1..Len(Unwrap(Val(res.out)).object.v) :
                           /\ Unwrap(Val(res.out)).object.v[i]
                                  = <<"from_ms", VLong(res.arg.from_ms.r)>>
                           /\ Unwrap(Val(res.out)).object.v[i + 1]
                                  = <<"to_ms", VLong(res.arg.to_ms.r)>>
        ELSE /\ ~res.out.panic
             /\ Val(res.out) = None

\* a StreamTrackUnitsResponse whose from_ms is 2^63 and whose to_ms is
\* 2^128 - 1 was handed to save, which panicked
WideBoundsPanicked ==
    /\ res.op \in {"save", "Builder::save"}
    /\ res.arg.cls = "StreamTrackUnitsResponse"
    /\ res.arg.from_ms = Wide(63, 0)
    /\ res.out.panic

\* time bounds that fit have been written as longs
FittingBoundsSaved ==
    /\ res.op = "save"
    /\ res.arg.cls = "StreamTrackUnitsRequest"
    /\ FitsLong(res.arg.from_ms) /\ FitsLong(res.arg.to_ms)
    /\ ~res.out.panic

\* the u64 that a long n is cast to: n itself, or 2^64 + n for a negative n
IsCastToU64(w, n) == w = IF n >= 0 THEN Wide(0, n) ELSE Wide(64, n)

\* the positions of the cast integer fields in the record of T
NumberFields(T) ==
    CASE T = "UnitElementMessage" -> {2}
      [] T = "StreamTrackUnitElementsRequest" -> {4}
      [] T = "NotifyMessage" -> {2, 3}
      [] OTHER -> {}

\* T::load(m) had the outcome `out`, and has an outcome of the same kind
\* (abort, None or Some) when the number at field i of m is 0 instead
NumberBlind(T, m, i, out) ==
    (/\ m.object.k = "Record"
     /\ i <= Len(m.object.v)
     /\ m.object.v[i][2].k \in {"Long", "Int"}) =>
        /\ Load(T, [m EXCEPT !.object.v[i][2].v = 0]).panic = out.panic
        /\ ~out.panic =>
               IsSome(Val(Load(T, [m EXCEPT !.object.v[i][2].v = 0])))
                   = IsSome(Val(out))

\* C30: integer casts round-trip.  save writes element and max_element as
\* the long of the same value and saved_ms as the long that is the u64
\* modulo 2^64; load returns the i16 equal to the long modulo 2^16 and the
\* u64 equal to the long modulo 2^64; a constructed message comes back from
\* save, pack, unpack and load with the element, max_element, last_element
\* and saved_ms it had; and whether load aborts, returns None or returns a
\* message does not depend on the number held by such a field.
IntegerCastsRoundTrip ==
    /\ (res.op = "save" /\ ~res.out.panic /\ IsSome(Val(res.out))) =>
           /\ res.arg.cls = "UnitElementMessage" =>
                  Unwrap(Val(res.out)).object.v[2]
                      = <<"element", VLong(res.arg.element)>>
           /\ res.arg.cls = "StreamTrackUnitElementsRequest" =>
                  Unwrap(Val(res.out)).object.v[4]
                      = <<"max_element", VLong(res.arg.max_element)>>
           /\ res.arg.cls = "NotifyMessage" =>
                  /\ Unwrap(Val(res.out)).object.v[3][2].k = "Long"
                  /\ IsCastToU64(res.arg.saved_ms,
                                 Unwrap(Val(res.out)).object.v[3][2].v)
    /\ res.op = "load" =>
           \A i \in NumberFields(res.arg[1]) :
               NumberBlind(res.arg[1], res.arg[2], i, res.out)
    /\ (res.op = "load" /\ ~res.out.panic /\ IsSome(Val(res.out))) =>
           /\ res.arg[1] = "UnitElementMessage" =>
                  IsCastToI16(Unwrap(Val(res.out)).element,
                              res.arg[2].object.v[2][2].v)
           /\ res.arg[1] = "StreamTrackUnitElementsRequest" =>
                  IsCastToI16(Unwrap(Val(res.out)).max_element,
                              res.arg[2].object.v[4][2].v)
           /\ res.arg[1] = "NotifyMessage" =>
                  IsCastToU64(Unwrap(Val(res.out)).saved_ms,
                              res.arg[2].object.v[3][2].v)
    /\ (/\ IsSome(origin)
        /\ \/ res.op = "Builder::load"
           \/ res.op = "load" /\ packs >= 1 /\ res.arg[1] = Unwrap(origin).cls) =>
           /\ Unwrap(origin).cls = "UnitElementMessage" =>
                  /\ ~res.out.panic
                  /\ IsSome(Val(res.out))
                  /\ Unwrap(Val(res.out)).element = Unwrap(origin).element
           /\ Unwrap(origin).cls = "StreamTrackUnitElementsRequest" =>
                  /\ ~res.out.panic
                  /\ IsSome(Val(res.out))
                  /\ Unwrap(Val(res.out)).max_element = Unwrap(origin).max_element
           /\ Unwrap(origin).cls = "NotifyMessage" =>
                  /\ ~res.out.panic
                  /\ IsSome(Val(res.out))
                  /\ Unwrap(Val(res.out)).saved_ms = Unwrap(origin).saved_ms
                  /\ Unwrap(Val(res.out)).notify_type = Unwrap(origin).notify_type

\* C30 witness: a record whose element is -32769, one below the range of
\* i16, has been loaded as a UnitElementMessage with element 32767
ElementWrapped ==
    /\ res.op = "load"
    /\ res.arg[1] = "UnitElementMessage"
    /\ ~res.out.panic
    /\ IsSome(Val(res.out))
    /\ res.arg[2].object.v[2][2] = VLong(-32769)
    /\ Unwrap(Val(res.out)).element = 32767

\* a constructed NotifyMessage with saved_ms 2^64 - 1 has come back from
\* save, pack, unpack and load
SavedMsMaxReturned ==
    /\ IsSome(origin)
    /\ Unwrap(origin).cls = "NotifyMessage"
    /\ Unwrap(origin).saved_ms = Wide(64, -1)
    /\ res.op \in {"load", "Builder::load"}
    /\ packs >= 1
    /\ ~res.out.panic
    /\ IsSome(Val(res.out))
    /\ Unwrap(Val(res.out)).saved_ms = Wide(64, -1)

\* a constructed UnitElementMessage with element -32768 has come back
ElementMinReturned ==
    /\ IsSome(origin)
    /\ Unwrap(origin).cls = "UnitElementMessage"
    /\ Unwrap(origin).element = -32768
    /\ res.op \in {"load", "Builder::load"}
    /\ packs >= 1
    /\ ~res.out.panic
    /\ IsSome(Val(res.out))
    /\ Unwrap(Val(res.out)).element = -32768

\* C21: the catalog is read-only after construction.  In every interleaving
\* of the get_schema, pack, unpack, save and load calls of the threads that
\* share one Builder, the directory is the one that was built, and each
\* call that has returned or panicked has an outcome of the same call made
\* alone on that directory.
CatalogReadOnly ==
    /\ directory = BuilderImplNew
    /\ \A c \in Callers :
           calls[c].at = "returned" =>
               calls[c].out \in Outcomes(BuilderImplNew, calls[c].op, calls[c].arg)

\* C21 witness: a thread has packed a message while another thread is
\* between the lookups of its own call
ReturnedBetweenLookups ==
    \E c, other \in Callers :
        /\ c # other
        /\ calls[c].at = "returned"
        /\ calls[c].op = "save_from_avro"
        /\ ~calls[c].out.panic
        /\ calls[other].at = "called"
        /\ Len(calls[other].seen) >= 1
        /\ Len(calls[other].seen)
               < Len(Lookups(SeenDir(calls[other].seen), calls[other].op,
                             calls[other].arg))

\* a thread's call has panicked and another thread's call has returned
\* after it
PanickedBesideReturned ==
    \E c, other \in Callers :
        /\ calls[c].at = "returned"
        /\ calls[c].out.panic
        /\ calls[other].at = "returned"
        /\ ~calls[other].out.panic
        /\ calls[other].op = "Builder::load"
        /\ IsSome(Val(calls[other].out))
====
